---- MODULE Spec2Model ----
(***************************************************************************)
(* A model of the execution engine of cactus-client: the step scheduler    *)
(* (StepExecutionList and execute_for_context), the progress tracker, the  *)
(* results evaluation and the resource store.                              *)
(*                                                                         *)
(* Time is counted in ticks; a second is TicksPerSecond ticks, so that a   *)
(* timedelta with a sub-second part can be told from its whole seconds.    *)
(* A datetime is the number of ticks since the start of the run.           *)
(***************************************************************************)
EXTENDS Integers, Sequences, FiniteSets, TLC

VARIABLES
    steps,                  \* the procedure: sequence of Step records
    queue,                  \* context.steps._items (StepExecutionList)
    now,                    \* the wall clock, utc_now()
    repeat_delay,           \* context.repeat_delay (a timedelta, in ticks)
    pc,                     \* position of execute_for_context: "loop" or "done"
    completed,              \* ExecutionResult.completed (None while running)
    current_step_execution, \* ProgressTracker.current_step_execution
    progress_by_step_id,    \* ProgressTracker.progress_by_step_id
    all_completions,        \* ProgressTracker.all_completions
    all_results,            \* ProgressTracker.all_results
    warnings,               \* WarningTracker.warnings
    responses,              \* ResponseTracker.responses
    evaluation,             \* the ResultsEvaluation built for the run (None before)
    resource_store,         \* ResourceStore.resource_store: kind -> list of StoredResource
    id_store,               \* ResourceStore.id_store: identifier -> StoredResource
    store_result,           \* what the latest ResourceStore call returned or raised
    active_request,         \* ResponseTracker.active_request
    request_result,         \* what the latest protocol-client call returned or raised
    server_log,             \* the requests the server has seen, with its answers
    der_controls,           \* the stored DERControls of the client, in store order
    annotations,            \* per DERControl, the tags of namespace RESPONSES
    notification_contexts,  \* per client, NotificationsContext.endpoints_by_sub_alias
    collector,              \* the collector service: its endpoints and the requests it has seen
    entrypoint,             \* where run_entrypoint is, and what it has done (None: not started)
    run_id_file,            \* the .runid file of the base output directory, and its lock
    increments,             \* per process, where its increment_run_id_counter is
    discovered_resources,   \* per client, what ResourceStore.resources() of its store yields
    last                    \* what the latest iteration of the loop did (history)

vars == <<steps, queue, now, repeat_delay, pc, completed, current_step_execution,
          progress_by_step_id, all_completions, all_results, warnings, responses,
          evaluation, resource_store, id_store, store_result, active_request,
          request_result, server_log, der_controls, annotations, notification_contexts,
          collector, entrypoint, run_id_file, increments, discovered_resources,
          last>>

trackerVars == <<progress_by_step_id, all_completions, all_results, warnings, responses>>

storeVars == <<resource_store, id_store, store_result>>

\* What the run as a whole keeps outside the execution of a step.
hostVars == <<notification_contexts, collector, entrypoint, run_id_file, increments,
              discovered_resources>>

actionVars == <<active_request, request_result, server_log, der_controls, annotations,
                hostVars>>

\* What only the actions and checks of a step write.
effectVars == <<warnings, responses, storeVars, actionVars>>

runVars == <<steps, queue, now, repeat_delay, pc, completed, current_step_execution, last>>

\* An optional value is the empty tuple (None) or the one-element tuple of
\* the value.
None == <<>>

Some(x) == <<x>>

(***************************************************************************)
(* Bounds of the model.                                                    *)
(***************************************************************************)
\* The clients of the run, and the subscription aliases of a test procedure.
ClientOrder == <<"client1", "client2">>

Clients == {ClientOrder[i] : i \in 1..Len(ClientOrder)}

SubAliases == {"sub1", "sub2"}

\* No webhook endpoint, no run started and no .runid file yet.
IdleHost ==
    /\ notification_contexts =
           [c \in Clients |-> [endpoints_by_sub_alias |-> <<>>, delete_attempts |-> <<>>]]
    /\ collector = [endpoints |-> {}, log |-> <<>>]
    /\ entrypoint = None
    /\ run_id_file = [content |-> None, locked_by |-> None]
    /\ increments = <<>>
    /\ discovered_resources = [c \in Clients |-> <<>>]

NumSteps == 2
TicksPerSecond == 2
MaxIterations == 3
MaxOversleep == 1
MaxStored == 2
MaxTrackerCalls == 3
NumControls == 2

\* The sentinel of peek. The source value is 0xEFFFFFFF; the largest integer
\* of the checker stands for it, every primacy of the model being either far
\* below it or equal to it.
MAX_PRIMACY == 2147483647

\* The sentinel of peek_next_no_wait, datetime(9999, 1, 1), in the same way.
EARLIEST_SENTINEL == 2147483647

StepIds == 1..NumSteps

\* The time an action and its checks take: none, or one tick.
ActionTicks == {0, 1}

\* The not_before an action asks for when it requests a repeat: unset, or
\* one tick or 2 seconds after the time the action reads the clock.
NotBeforeOffsets == {1, 2 * TicksPerSecond}

\* The values of context.repeat_delay: none, or a second and one tick.
RepeatDelays == {0, TicksPerSecond + 1}

(***************************************************************************)
(* model/execution.py                                                      *)
(***************************************************************************)
CheckResult(passed, description) == [passed |-> passed, description |-> description]

ActionResult(completed_, repeat, not_before) ==
    [completed |-> completed_, repeat |-> repeat, not_before |-> not_before]

ActionResult_done == ActionResult(TRUE, FALSE, None)

ActionResult_failed == ActionResult(FALSE, FALSE, None)

ExecutionResult(completed_) == [completed |-> completed_]

StepExecution(source, primacy, repeat_number, not_before, attempts) ==
    [source |-> source, primacy |-> primacy, repeat_number |-> repeat_number,
     not_before |-> not_before, attempts |-> attempts]

executable_delay_required(se, t) ==
    IF se.not_before = None \/ se.not_before[1] <= t
    THEN 0
    ELSE se.not_before[1] - t

\* peek_loop without the update of lowest_primacy (line 91).
RECURSIVE peek_loop_stale(_, _, _, _, _)
peek_loop_stale(items, i, t, lowest, lowest_primacy) ==
    IF i > Len(items) THEN lowest
    ELSE LET se == items[i] IN
         IF se.not_before # None /\ se.not_before[1] > t
         THEN peek_loop_stale(items, i + 1, t, lowest, lowest_primacy)
         ELSE IF se.primacy < lowest_primacy
              THEN peek_loop_stale(items, i + 1, t, Some(se), lowest_primacy)
              ELSE peek_loop_stale(items, i + 1, t, lowest, lowest_primacy)

\* The for loop of peek from index i on, with the running lowest and lowest_primacy.
RECURSIVE peek_loop(_, _, _, _, _)
peek_loop(items, i, t, lowest, lowest_primacy) ==
    IF i > Len(items) THEN lowest
    ELSE LET se == items[i] IN
         IF se.not_before # None /\ se.not_before[1] > t
         THEN peek_loop(items, i + 1, t, lowest, lowest_primacy)
         ELSE IF se.primacy < lowest_primacy
              THEN peek_loop(items, i + 1, t, Some(se), se.primacy)
              ELSE peek_loop(items, i + 1, t, lowest, lowest_primacy)

peek(items, t) == peek_loop(items, 1, t, None, MAX_PRIMACY)

\* earliest_loop without the update of earliest_not_before (line 110).
RECURSIVE earliest_loop_stale(_, _, _, _)
earliest_loop_stale(items, i, earliest, earliest_not_before) ==
    IF i > Len(items) THEN earliest
    ELSE LET se == items[i] IN
         IF se.not_before = None THEN Some(se)
         ELSE IF se.not_before[1] < earliest_not_before
              THEN earliest_loop_stale(items, i + 1, Some(se), earliest_not_before)
              ELSE earliest_loop_stale(items, i + 1, earliest, earliest_not_before)

\* The for loop of peek_next_no_wait from index i on.
RECURSIVE earliest_loop(_, _, _, _)
earliest_loop(items, i, earliest, earliest_not_before) ==
    IF i > Len(items) THEN earliest
    ELSE LET se == items[i] IN
         IF se.not_before = None THEN Some(se)
         ELSE IF se.not_before[1] < earliest_not_before
              THEN earliest_loop(items, i + 1, Some(se), se.not_before[1])
              ELSE earliest_loop(items, i + 1, earliest, earliest_not_before)

peek_next_no_wait(items, t) ==
    LET next_step == peek(items, t) IN
    IF next_step # None THEN next_step
    ELSE earliest_loop(items, 1, None, EARLIEST_SENTINEL)

\* list.remove(x): drops the first element equal to x.
RECURSIVE list_remove(_, _)
list_remove(items, x) ==
    IF items = <<>> THEN <<>>
    ELSE IF Head(items) = x THEN Tail(items)
    ELSE <<Head(items)>> \o list_remove(Tail(items), x)

\* A variant of pop that leaves the step-execution it returns in the list.
pop_without_remove(items, t) == <<peek(items, t), items>>

\* A variant of pop that takes the lowest primacy whatever the not_before.
pop_whatever_not_before(items, t) ==
    LET next_step == peek([i \in 1..Len(items) |-> [items[i] EXCEPT !.not_before = None]], t)
        found == IF next_step = None THEN None
                 ELSE Some(CHOOSE se \in {items[i] : i \in 1..Len(items)} :
                               se.primacy = next_step[1].primacy)
    IN  IF found # None
        THEN <<found, list_remove(items, found[1])>>
        ELSE <<None, items>>

\* pop returns the pair <<next_step, items afterwards>>.
pop(items, t) ==
    LET next_step == peek(items, t) IN
    IF next_step # None
    THEN <<next_step, list_remove(items, next_step[1])>>
    ELSE <<None, items>>

\* A variant of add that appends the step-execution twice.
add_twice(items, se) == Append(Append(items, se), se)

add(items, se) == Append(items, se)

(***************************************************************************)
(* model/progress.py                                                       *)
(***************************************************************************)
StepProgress_empty(step) ==
    [step |-> step, result |-> None, step_execution_completions |-> <<>>,
     log_entries |-> <<>>]

\* _update_progress, the update being given as the field it changes.
update_progress(progress, step_id, field, value) ==
    LET p == IF step_id \in DOMAIN progress THEN progress[step_id]
             ELSE StepProgress_empty(step_id)
        q == IF field = "log" THEN [p EXCEPT !.log_entries = Append(@, value)]
             ELSE IF field = "completion"
                  THEN [p EXCEPT !.step_execution_completions = Append(@, value)]
                  ELSE [p EXCEPT !.result = value]
    IN [k \in DOMAIN progress \cup {step_id} |-> IF k = step_id THEN q ELSE progress[k]]

add_log(progress, se, message) == update_progress(progress, se.source, "log", message)

\* The calls of add_log an action makes while it runs, in their order.
RECURSIVE add_logs(_, _, _)
add_logs(progress, se, logs) ==
    IF logs = <<>> THEN progress
    ELSE add_logs(add_log(progress, se, Head(logs)), se, Tail(logs))

\* update_current_step: the progress afterwards (current_step_execution is
\* assigned by the caller of this operator). delay is a timedelta in ticks
\* or None; timedelta(0) is falsy.
update_current_step(progress, se, delay) ==
    IF delay # None /\ delay[1] # 0
    THEN add_log(progress, se, "Waiting")
    ELSE add_log(progress, se, "Beginning execution")

StepExecutionCompletion(se, action_result, check_result, exc, at) ==
    [step_execution |-> se, action_result |-> action_result,
     check_result |-> check_result, exc |-> exc, created_at |-> at]

is_success(c) ==
    /\ c.exc = None
    /\ c.action_result # None
    /\ c.action_result[1].completed
    /\ c.check_result # None
    /\ c.check_result[1].passed

StepResult(step, failure_result, exc) ==
    [step |-> step, failure_result |-> failure_result, exc |-> exc]

\* is_passed looking at the failure only, an exception counting as a pass.
is_passed_despite_exc(r) == r.failure_result = None

is_passed(r) == r.failure_result = None /\ r.exc = None

\* add_step_execution_exception without the assignment of progress.result.
add_step_execution_exception_no_result(progress, completions, results, se, exc, at) ==
    LET completion == StepExecutionCompletion(se, None, None, Some(exc), at)
        result == StepResult(se.source, None, Some(exc))
        p1 == add_log(progress, se, "Exception raised")
        p2 == update_progress(p1, se.source, "completion", completion)
    IN <<p2, Append(completions, completion), Append(results, result)>>

\* add_step_execution_exception: <<progress, all_completions, all_results>> afterwards.
add_step_execution_exception(progress, completions, results, se, exc, at) ==
    LET completion == StepExecutionCompletion(se, None, None, Some(exc), at)
        result == StepResult(se.source, None, Some(exc))
        p1 == add_log(progress, se, "Exception raised")
        p2 == update_progress(p1, se.source, "completion", completion)
        p3 == update_progress(p2, se.source, "result", Some(result))
    IN <<p3, Append(completions, completion), Append(results, result)>>

\* add_step_execution_completion: <<progress, all_completions>> afterwards.
add_step_execution_completion(progress, completions, se, action_result, check_result, at) ==
    LET completion == StepExecutionCompletion(se, Some(action_result), Some(check_result), None, at)
        p1 == update_progress(progress, se.source, "completion", completion)
        p2 == IF check_result.passed
              THEN add_log(p1, se, "Success with all checks passing")
              ELSE add_log(p1, se, "Check Failure")
    IN <<p2, Append(completions, completion)>>

\* set_step_result: <<progress, all_results>> afterwards.
set_step_result(progress, results, se, action_result, check_result) ==
    LET step_passed == action_result.completed /\ check_result.passed
        failure_result ==
            IF step_passed THEN None
            ELSE IF ~action_result.completed
                 THEN Some(CheckResult(FALSE, Some("Action failed")))
                 ELSE Some(check_result)
        result == StepResult(se.source, failure_result, None)
        p1 == update_progress(progress, se.source, "result", Some(result))
        p2 == IF step_passed
              THEN add_log(p1, se, "marked as successful")
              ELSE add_log(p1, se, "marked as failed")
    IN <<p2, Append(results, result)>>

\* WarningTracker.log_step_warning: the warnings afterwards.
log_step_warning(ws, se, message) ==
    Append(ws, [message |-> message, step_execution |-> Some(se), stored_resource |-> None])

\* The xsd_errors of a ServerResponse or NotificationRequest: None when the
\* body was not validated, else the list of the errors found.
XsdErrors == {None, Some(<<>>), Some(<<"has error">>)}

\* ResponseTracker.log_response_body: the responses afterwards.
log_response_body(rs, xsd_errors) ==
    Append(rs, [type |-> "ServerResponse", xsd_errors |-> xsd_errors])

\* ResponseTracker.log_notification_body: the responses afterwards.
log_notification_body(rs, xsd_errors) ==
    Append(rs, [type |-> "NotificationRequest", xsd_errors |-> xsd_errors])

(***************************************************************************)
(* model/resource.py: StoredResourceId, StoredResource, ResourceStore.     *)
(***************************************************************************)
\* CSIPAusResource values, hrefs and payloads that the store is driven with.
Kinds == {"EndDevice", "DER"}

Hrefs == {"/a", "/b"}

\* A Resource: its href (None when the server sent none) and its content.
Resources == [href : {None} \cup {Some(h) : h \in Hrefs}, body : {"v1", "v2"}]

\* StoredResourceId.from_parent: the href followed by the parent's chain.
from_parent(parent, href) ==
    IF parent = None THEN <<href>> ELSE <<href>> \o parent[1]

\* StoredResourceId.parent_id
parent_id(id) == IF Len(id) = 1 THEN None ELSE Some(Tail(id))

\* hrefs[-n:] for 0 <= n <= len(hrefs): the last n hrefs, and the whole tuple
\* for n = 0 (a slice from -0 starts at 0).
last_hrefs(hrefs, n) ==
    IF n = 0 THEN hrefs ELSE SubSeq(hrefs, Len(hrefs) - n + 1, Len(hrefs))

\* StoredResourceId.is_descendent_of
is_descendent_of(id, ancestor) ==
    IF Len(id) <= Len(ancestor) THEN FALSE
    ELSE last_hrefs(id, Len(ancestor)) = ancestor

\* A variant of is_ancestor_of that lets identifiers of the same depth through.
is_ancestor_of_or_self(id, descendent) ==
    IF Len(id) > Len(descendent) THEN FALSE
    ELSE id = last_hrefs(descendent, Len(id))

\* StoredResourceId.is_ancestor_of
is_ancestor_of(id, descendent) ==
    IF Len(id) >= Len(descendent) THEN FALSE
    ELSE id = last_hrefs(descendent, Len(id))

\* The parents a resource is stored under: none, or the top-level resource "/a".
ParentIds == {None, Some(<<"/a">>)}

StoredIds == {from_parent(p, h) : p \in ParentIds, h \in Hrefs}

\* StoredResource.from_resource, for a resource that has a href.
from_resource(type, parent, resource) ==
    [id |-> from_parent(parent, resource.href[1]),
     resource_type |-> type,
     resource |-> resource]

\* What a call of the store leaves behind: both indices, the exception it
\* raised (None when it returned) and the value it returned.
StoreOutcome(rs, ids, raised, returned) ==
    [resource_store |-> rs, id_store |-> ids, raised |-> raised, returned |-> returned]

\* ResourceStore.get_for_id
get_for_id(ids, id) == ids[id]

\* ResourceStore.get_for_type
get_for_type(rs, type) == IF rs[type] = None THEN <<>> ELSE rs[type][1]

\* ResourceStore.clear
clear(rs, ids) ==
    StoreOutcome([k \in Kinds |-> None], [i \in StoredIds |-> None], None, None)

\* The loop of clear_resource: `del self.id_store[sr.id]` for each resource of
\* the list, a KeyError ending the call where the identifier is not linked.
RECURSIVE clear_loop(_, _, _)
clear_loop(existing_srs, i, ids) ==
    IF i > Len(existing_srs) THEN [id_store |-> ids, raised |-> None]
    ELSE IF ids[existing_srs[i].id] = None
         THEN [id_store |-> ids, raised |-> Some("KeyError")]
         ELSE clear_loop(existing_srs, i + 1,
                         [ids EXCEPT ![existing_srs[i].id] = None])

\* ResourceStore.clear_resource
clear_resource(rs, ids, type) ==
    IF rs[type] = None THEN StoreOutcome(rs, ids, None, None)
    ELSE LET r == clear_loop(rs[type][1], 1, ids)
         IN  IF r.raised # None
             THEN StoreOutcome(rs, r.id_store, r.raised, None)
             ELSE StoreOutcome([rs EXCEPT ![type] = None], r.id_store, None, None)

\* ResourceStore.append_resource
append_resource(rs, ids, type, parent, resource) ==
    IF resource.href = None
    THEN StoreOutcome(rs, ids, Some("CactusClientException"), None)
    ELSE LET new_resource == from_resource(type, parent, resource)
         IN  IF ids[new_resource.id] # None
             THEN StoreOutcome(rs, ids, Some("CactusClientException"), None)
             ELSE StoreOutcome(
                      [rs EXCEPT ![type] = IF @ = None
                                           THEN Some(<<new_resource>>)
                                           ELSE Some(Append(@[1], new_resource))],
                      [ids EXCEPT ![new_resource.id] = Some(new_resource)],
                      None, Some(new_resource))

\* The position of the first resource of the list with this identifier, 0 if
\* there is none (the search of upsert_resource).
RECURSIVE find_conflict(_, _, _)
find_conflict(existing, idx, id) ==
    IF idx > Len(existing) THEN 0
    ELSE IF existing[idx].id = id THEN idx
         ELSE find_conflict(existing, idx + 1, id)

\* A variant of upsert_resource that starts the list of the kind afresh.
upsert_resource_fresh_list(rs, ids, type, parent, resource) ==
    IF resource.href = None
    THEN StoreOutcome(rs, ids, Some("CactusClientException"), None)
    ELSE LET new_resource == from_resource(type, parent, resource)
         IN  StoreOutcome([rs EXCEPT ![type] = Some(<<new_resource>>)],
                          [ids EXCEPT ![new_resource.id] = Some(new_resource)],
                          None, Some(new_resource))

\* ResourceStore.upsert_resource
upsert_resource(rs, ids, type, parent, resource) ==
    IF resource.href = None
    THEN StoreOutcome(rs, ids, Some("CactusClientException"), None)
    ELSE LET new_resource == from_resource(type, parent, resource)
             idx == IF rs[type] = None THEN 0
                    ELSE find_conflict(rs[type][1], 1, new_resource.id)
         IN  StoreOutcome(
                 [rs EXCEPT ![type] =
                      IF @ = None THEN Some(<<new_resource>>)
                      ELSE IF idx > 0 THEN Some([@[1] EXCEPT ![idx] = new_resource])
                           ELSE Some(Append(@[1], new_resource))],
                 [ids EXCEPT ![new_resource.id] = Some(new_resource)],
                 None, Some(new_resource))

\* A variant of delete_resource that unlinks the descendants of the resource
\* from the identifier index as well.
delete_resource_with_descendents(rs, ids, id) ==
    IF ids[id] = None THEN StoreOutcome(rs, ids, None, None)
    ELSE StoreOutcome(
             [rs EXCEPT ![ids[id][1].resource_type] =
                  IF @ = None THEN @ ELSE Some(list_remove(@[1], ids[id][1]))],
             [i \in StoredIds |->
                  IF i = id \/ is_descendent_of(i, id) THEN None ELSE ids[i]],
             None, ids[id])

\* ResourceStore.delete_resource
delete_resource(rs, ids, id) ==
    LET deleted_item == ids[id]
        popped == [ids EXCEPT ![id] = None]
    IN  IF deleted_item = None THEN StoreOutcome(rs, ids, None, None)
        ELSE LET resource_list == rs[deleted_item[1].resource_type]
             IN  IF resource_list = None
                 THEN StoreOutcome(rs, popped, None, deleted_item)
                 ELSE IF \E i \in DOMAIN resource_list[1] :
                              resource_list[1][i] = deleted_item[1]
                      THEN StoreOutcome(
                               [rs EXCEPT ![deleted_item[1].resource_type] =
                                    Some(list_remove(resource_list[1], deleted_item[1]))],
                               popped, None, deleted_item)
                      ELSE StoreOutcome(rs, popped, Some("CactusClientException"), None)

\* ResourceStore.resources: every StoredResource of every list.
resources(rs) ==
    UNION {{get_for_type(rs, k)[i] : i \in DOMAIN get_for_type(rs, k)} : k \in Kinds}

(***************************************************************************)
(* action/server.py: the protocol client. The state a request works on is  *)
(* a record cs of the trackers of the context and of what the server saw:  *)
(* the logs added to the step, warnings, responses, active_request and     *)
(* server_log.                                                             *)
(***************************************************************************)
ClientState ==
    [logs |-> <<>>, warnings |-> warnings, responses |-> responses,
     active_request |-> active_request, server_log |-> server_log]

\* What the server does with one request: the connection fails, the body
\* cannot be read, or it answers with a status, a Location header (or none),
\* a body that parses into the expected type or not, and the resource in the
\* body: spelled out, or (resource None) said to match the submitted
\* resource or not.
ConnectionError == [kind |-> "connection_error"]

ReadError == [kind |-> "read_error"]

Answer(status, location, parses, matches) ==
    [kind |-> "response", status |-> status, location |-> location,
     parses |-> parses, matches |-> matches, resource |-> None]

\* The answer 200 with a resource in its body.
ResourceAnswer(resource) ==
    [Answer(200, None, TRUE, TRUE) EXCEPT !.resource = Some(resource)]

ServerAnswers ==
    {ConnectionError, ReadError,
     Answer(200, None, TRUE, TRUE), Answer(200, None, TRUE, FALSE),
     Answer(200, None, FALSE, FALSE),
     Answer(201, Some("/loc"), TRUE, TRUE), Answer(201, None, TRUE, TRUE),
     Answer(404, None, FALSE, FALSE), Answer(429, None, FALSE, FALSE)}

\* ServerResponse.is_success
is_success_response(r) == r.status >= 200 /\ r.status < 300

\* ServerResponse.is_client_error
is_client_error(r) == r.status >= 400 /\ r.status < 500

\* ResponseTracker.set_active_request
set_active_request(method, url) == Some([method |-> method, url |-> url])

\* What a call of the protocol client leaves behind: the client state, the
\* exception it raised (None when it returned) and the value it returned.
CallOutcome(cs, raised, returned) == [cs |-> cs, raised |-> raised, returned |-> returned]

\* request_for_step. The connection is made on entering `async with
\* session.request(...)` (line 49), before the try block of lines 50-55: a
\* connection failure leaves the function as the error of the HTTP library.
\* Line 57 passes the response alone to log_response_body, which is taken
\* here as the logging of that response.
request_for_step(cs, se, path, method, sep2_xml_body, answer) ==
    LET cs1 == [cs EXCEPT !.logs = Append(@, "Requesting"),
                          !.active_request = set_active_request(method, path),
                          !.server_log = Append(@, [method |-> method, path |-> path,
                                                    body |-> sep2_xml_body,
                                                    answer |-> answer])]
    IN  IF answer.kind = "connection_error"
        THEN CallOutcome(cs1, Some("ClientConnectionError"), None)
        ELSE IF answer.kind = "read_error"
        THEN CallOutcome([cs1 EXCEPT !.active_request = None],
                         Some("RequestException"), None)
        ELSE LET response == [method |-> method, url |-> path,
                              status |-> answer.status, location |-> answer.location]
             IN  CallOutcome([cs1 EXCEPT !.responses = log_response_body(@, None),
                                         !.active_request = None],
                             None, Some(response))

\* get_resource_for_step: the resource returned is the answer of the server.
get_resource_for_step(cs, se, href, answer) ==
    LET r == request_for_step(cs, se, href, "GET", None, answer)
    IN  IF r.raised # None THEN r
        ELSE IF ~is_success_response(r.returned[1])
        THEN CallOutcome(r.cs, Some("RequestException"), None)
        ELSE IF ~answer.parses
        THEN CallOutcome(r.cs, Some("RequestException"), None)
        ELSE CallOutcome(r.cs, None, Some(answer))

(***************************************************************************)
(* sep2.py: get_property_changes. A resource is a record of its            *)
(* properties, each None or a value with its type.                         *)
(***************************************************************************)
MAX_TIME_DRIFT_SECONDS == 5

IntVal(n) == [type |-> "int", v |-> n]

StrVal(s) == [type |-> "str", v |-> s]

ListVal(l) == [type |-> "list", v |-> l]

\* The properties of an EndDevice the model compares.
PropertyKeys == {"changedTime", "sFDI", "postRate", "lFDI", "FunctionSetAssignments"}

\* The keys for which `"time" in key.lower()` holds.
TimeKeys == {"changedTime"}

\* str.upper on the characters of the model.
upper_char(c) == IF c = "a" THEN "A" ELSE c

upper(s) == [i \in 1..Len(s) |-> upper_char(s[i])]

\* str.endswith
endswith(s, suffix) ==
    /\ Len(suffix) <= Len(s)
    /\ SubSeq(s, Len(s) - Len(suffix) + 1, Len(s)) = suffix

abs(n) == IF n < 0 THEN -n ELSE n

\* Lines 86-113 for one key with the postRate compared like any other.
property_differs_strict(key, source_val, returned_val) ==
    /\ source_val # None
    /\ source_val # returned_val
    /\ source_val[1].type # "list"
    /\ ~(/\ source_val[1].type = "str"
         /\ returned_val # None
         /\ returned_val[1].type = "str"
         /\ \/ endswith(upper(returned_val[1].v), upper(source_val[1].v))
            \/ endswith(upper(source_val[1].v), upper(returned_val[1].v)))
    /\ ~(/\ key \in TimeKeys
         /\ source_val[1].type = "int"
         /\ returned_val # None
         /\ returned_val[1].type = "int"
         /\ abs(source_val[1].v - returned_val[1].v) <= MAX_TIME_DRIFT_SECONDS)

\* Lines 86-113: whether a difference is recorded for one key.
property_differs(key, source_val, returned_val) ==
    /\ source_val # None
    /\ source_val # returned_val
    /\ source_val[1].type # "list"
    /\ ~(/\ source_val[1].type = "str"
         /\ returned_val # None
         /\ returned_val[1].type = "str"
         /\ \/ endswith(upper(returned_val[1].v), upper(source_val[1].v))
            \/ endswith(upper(source_val[1].v), upper(returned_val[1].v)))
    /\ key # "postRate"
    /\ ~(/\ key \in TimeKeys
         /\ source_val[1].type = "int"
         /\ returned_val # None
         /\ returned_val[1].type = "int"
         /\ abs(source_val[1].v - returned_val[1].v) <= MAX_TIME_DRIFT_SECONDS)

\* get_property_changes: the keys with a difference, None when there is
\* none; getattr(returned, key, None) is None for a key returned lacks.
get_property_changes(source, returned) ==
    LET differences ==
            {key \in DOMAIN source :
                property_differs(key, source[key],
                                 IF key \in DOMAIN returned THEN returned[key] ELSE None)}
    IN  IF differences # {} THEN Some(differences) ELSE None

\* The changes between the submitted resource and the one in the answer to
\* the refetch.
changes_of(submitted_resource, answer) ==
    IF answer.resource # None
    THEN get_property_changes(submitted_resource, answer.resource[1])
    ELSE IF answer.matches THEN None ELSE Some({})

\* submit_and_refetch_resource_for_step, for the answers to the submission
\* and to the refetch.
submit_and_refetch_resource_for_step(cs, se, method, href, submitted_resource, no_location_header, answer, refetch_answer) ==
    LET r == request_for_step(cs, se, href, method, Some(submitted_resource), answer)
    IN  IF r.raised # None THEN r
        ELSE IF ~is_success_response(r.returned[1])
        THEN CallOutcome(r.cs, Some("RequestException"), None)
        ELSE IF ~no_location_header /\ r.returned[1].location = None
        THEN CallOutcome(r.cs, Some("RequestException"), None)
        ELSE LET refetch_href == IF no_location_header THEN href
                                 ELSE r.returned[1].location[1]
                 g == get_resource_for_step(r.cs, se, refetch_href, refetch_answer)
             IN  IF g.raised # None THEN g
                 ELSE IF changes_of(submitted_resource, refetch_answer) # None
                 THEN CallOutcome([g.cs EXCEPT !.warnings =
                                       log_step_warning(@, se, "didn't match")],
                                  None, g.returned)
                 ELSE g


(***************************************************************************)
(* action/der_controls.py: the responses to DERControls.                   *)
(***************************************************************************)
\* EventStatusType and ResponseType, by the names of their members.
EventStatusTypes == {"Scheduled", "Active", "Cancelled", "Superseded"}

ResponseTypes ==
    {"EVENT_RECEIVED", "EVENT_STARTED", "EVENT_COMPLETED", "EVENT_CANCELLED",
     "EVENT_SUPERSEDED"}

\* StoredResourceAnnotations.has_tag and add_tag for the namespace RESPONSES:
\* the annotations of a resource are the set of the tags added.
has_tag(a, tag) == tag \in a

add_tag(a, tag) == a \cup {tag}

\* int(current_time.timestamp()): whole seconds of a time in ticks.
timestamp(t) == t \div TicksPerSecond

\* A stored DERControl: replyTo and responseRequired (None when unset), the
\* current status of its EventStatus, its interval in seconds, and the lFDI
\* of the EndDevice the store finds above it (None when it finds none);
\* version counts the times the control was stored again.
DERControl(reply_to, response_req, status, start, duration, edev_lfdi) ==
    [replyTo |-> reply_to, responseRequired |-> response_req, currentStatus |-> status,
     interval |-> [start |-> start, duration |-> duration], edev_lfdi |-> edev_lfdi,
     version |-> 0]

\* determine_response_status with EVENT_STARTED asked for before
\* EVENT_RECEIVED was sent.
determine_response_status_unordered(event_status, a, der_control, current_time) ==
    IF has_tag(a, "EVENT_CANCELLED") \/ has_tag(a, "EVENT_SUPERSEDED") THEN None
    ELSE IF event_status = "Cancelled" THEN Some("EVENT_CANCELLED")
    ELSE IF event_status = "Superseded" THEN Some("EVENT_SUPERSEDED")
    ELSE IF event_status = "Active" /\ ~has_tag(a, "EVENT_STARTED")
    THEN Some("EVENT_STARTED")
    ELSE IF ~has_tag(a, "EVENT_RECEIVED") THEN Some("EVENT_RECEIVED")
    ELSE None

\* determine_response_status without the test of the tags CANCELLED and
\* SUPERSEDED.
determine_response_status_no_final(event_status, a, der_control, current_time) ==
    IF event_status = "Cancelled" THEN Some("EVENT_CANCELLED")
    ELSE IF event_status = "Superseded" THEN Some("EVENT_SUPERSEDED")
    ELSE IF ~has_tag(a, "EVENT_RECEIVED") THEN Some("EVENT_RECEIVED")
    ELSE None

\* determine_response_status without the test of the tag EVENT_RECEIVED.
determine_response_status_resend(event_status, a, der_control, current_time) ==
    IF has_tag(a, "EVENT_CANCELLED") \/ has_tag(a, "EVENT_SUPERSEDED") THEN None
    ELSE IF event_status = "Cancelled" THEN Some("EVENT_CANCELLED")
    ELSE IF event_status = "Superseded" THEN Some("EVENT_SUPERSEDED")
    ELSE Some("EVENT_RECEIVED")

\* determine_response_status with EVENT_COMPLETED asked for as soon as
\* EVENT_STARTED was sent, whatever the end of the interval.
determine_response_status_completes_early(event_status, a, der_control, current_time) ==
    IF has_tag(a, "EVENT_CANCELLED") \/ has_tag(a, "EVENT_SUPERSEDED") THEN None
    ELSE IF event_status = "Cancelled" THEN Some("EVENT_CANCELLED")
    ELSE IF event_status = "Superseded" THEN Some("EVENT_SUPERSEDED")
    ELSE IF ~has_tag(a, "EVENT_RECEIVED") THEN Some("EVENT_RECEIVED")
    ELSE IF event_status = "Active" /\ ~has_tag(a, "EVENT_STARTED")
    THEN Some("EVENT_STARTED")
    ELSE IF event_status = "Active" /\ ~has_tag(a, "EVENT_COMPLETED")
    THEN Some("EVENT_COMPLETED")
    ELSE None

determine_response_status(event_status, a, der_control, current_time) ==
    LET sent_cancelled == has_tag(a, "EVENT_CANCELLED")
        sent_superseded == has_tag(a, "EVENT_SUPERSEDED")
        sent_received == has_tag(a, "EVENT_RECEIVED")
        event_start == der_control.interval.start
        event_end == event_start + der_control.interval.duration
        current_timestamp == timestamp(current_time)
    IN  IF sent_cancelled \/ sent_superseded THEN None
        ELSE IF event_status = "Cancelled" THEN Some("EVENT_CANCELLED")
        ELSE IF event_status = "Superseded" THEN Some("EVENT_SUPERSEDED")
        ELSE IF event_status = "Scheduled" /\ ~sent_received THEN Some("EVENT_RECEIVED")
        ELSE IF event_status = "Active"
        THEN IF ~sent_received THEN Some("EVENT_RECEIVED")
             ELSE IF current_timestamp >= event_start /\ ~has_tag(a, "EVENT_STARTED")
             THEN Some("EVENT_STARTED")
             ELSE IF current_timestamp >= event_end /\ ~has_tag(a, "EVENT_COMPLETED")
             THEN Some("EVENT_COMPLETED")
             ELSE None
        ELSE None


\* What an action leaves behind: the client state, the annotations and the
\* exception it raised (None when it returned).
ActionOutcome(cs, ann, raised) == [cs |-> cs, annotations |-> ann, raised |-> raised]

\* The exception of submit_and_refetch_resource_for_step leaving
\* action_respond_der_controls, with the tag of the response added all the same.
submission_raised_tagged(r, ann, i, response_status) ==
    ActionOutcome(r.cs, [ann EXCEPT ![i] = add_tag(@, response_status)], r.raised)

\* Lines 167-169: the exception of submit_and_refetch_resource_for_step
\* leaves action_respond_der_controls before the tag is added.
submission_raised(r, ann, i, response_status) == ActionOutcome(r.cs, ann, r.raised)

\* The loop of action_respond_der_controls over the stored DERControls, from
\* the i-th on; answers[i] is what the server answers to the submission and
\* to the refetch of the response to the i-th control.
RECURSIVE respond_loop(_, _, _, _, _, _, _)
respond_loop(stored_der_controls, i, cs, ann, se, current_time, answers) ==
    IF i > Len(stored_der_controls)
    THEN ActionOutcome([cs EXCEPT !.logs = Append(@, "DERControl responses")], ann, None)
    ELSE LET der_control == stored_der_controls[i]
             reply_to == der_control.replyTo
             response_req == der_control.responseRequired
             response_status ==
                 determine_response_status(der_control.currentStatus, ann[i],
                                           der_control, current_time)
             warned == [cs EXCEPT !.warnings = log_step_warning(@, se, "skipped")]
         IN  IF reply_to = None /\ response_req = None
             THEN respond_loop(stored_der_controls, i + 1, cs, ann, se, current_time, answers)
             ELSE IF reply_to = None \/ response_req = None
             THEN respond_loop(stored_der_controls, i + 1, warned, ann, se, current_time,
                               answers)
             ELSE IF response_status = None
             THEN respond_loop(stored_der_controls, i + 1, cs, ann, se, current_time, answers)
             ELSE IF der_control.edev_lfdi = None
             THEN respond_loop(stored_der_controls, i + 1, warned, ann, se, current_time,
                               answers)
             ELSE LET response == [subject |-> i, status |-> response_status[1],
                                   createdDateTime |-> timestamp(current_time)]
                      r == submit_and_refetch_resource_for_step(
                               cs, se, "POST", reply_to[1], response, FALSE,
                               answers[i][1], answers[i][2])
                  IN  IF r.raised # None
                      THEN submission_raised(r, ann, i, response_status[1])
                      ELSE respond_loop(stored_der_controls, i + 1, r.cs,
                                        [ann EXCEPT ![i] = add_tag(@, response_status[1])],
                                        se, current_time, answers)

action_respond_der_controls(cs, ann, se, stored_der_controls, current_time, answers) ==
    respond_loop(stored_der_controls, 1, cs, ann, se, current_time, answers)


(***************************************************************************)
(* execution/execute.py: execute_for_context                               *)
(***************************************************************************)
\* timedelta.total_seconds() and timedelta.seconds, as the number of ticks
\* asyncio.sleep is asked to sleep for: total_seconds() is the whole
\* timedelta, seconds is its whole seconds within the day.
total_seconds_ticks(td) == td

seconds_ticks(td) == ((td \div TicksPerSecond) % 86400) * TicksPerSecond

\* The clone of line 71 without the reset of attempts.
repeat_clone_keeps_attempts(current_step, action_result) ==
    [current_step EXCEPT !.repeat_number = current_step.repeat_number + 1,
                         !.not_before = action_result.not_before]

\* The clone of line 71 without the not_before of the action result.
repeat_clone_no_not_before(current_step, action_result) ==
    [current_step EXCEPT !.repeat_number = current_step.repeat_number + 1,
                         !.attempts = 0,
                         !.not_before = None]

\* dataclasses.replace for the two kinds of clone.
repeat_clone(current_step, action_result) ==
    [current_step EXCEPT !.repeat_number = current_step.repeat_number + 1,
                         !.attempts = 0,
                         !.not_before = action_result.not_before]

retry_clone(current_step) ==
    [current_step EXCEPT !.attempts = current_step.attempts + 1,
                         !.not_before = None]

\* Line 66: the step passes only if the action and the check both pass.
step_passed_of(action_result, check_result) ==
    action_result.completed /\ check_result.passed

\* Line 69: the step was successful, but asked for a repeat.
wants_repeat(step_passed, action_result) == step_passed /\ action_result.repeat

\* Line 78 without the test of repeat_until_pass.
wants_retry_always(step_passed, source) == ~step_passed

\* Line 78: the step failed and is marked as repeat_until_pass.
wants_retry(step_passed, source) == ~step_passed /\ source.repeat_until_pass

\* Line 91 without the break.
breaks_loop_never(step_passed) == FALSE

\* Line 91: a failed final step ends the loop.
breaks_loop(step_passed) == ~step_passed

\* What an action can return at time t, and what a check can return.
ActionResults(t) ==
    {ActionResult_done, ActionResult_failed}
    \cup {ActionResult(TRUE, TRUE, nb) : nb \in {None} \cup {Some(t + k) : k \in NotBeforeOffsets}}

CheckResults == {CheckResult(TRUE, None), CheckResult(FALSE, Some("check"))}

upcoming_step == peek_next_no_wait(queue, now)

Iteration(kind, se, slept, action_result, check_result) ==
    [iter |-> last.iter + 1, kind |-> kind, se |-> se, at |-> now, slept |-> slept,
     action_result |-> action_result, check_result |-> check_result,
     queue_before |-> queue]

\* The PEN of the server configuration, and a PEN that is not the server's.
ServerPen == 1

OtherPen == 2

\* is_invalid_resource: the error of a stored resource, None for a valid one.
\* The mRID of a server-minted resource ends with the server's PEN; a
\* MirrorUsagePoint, minted by the client, is exempt.
is_invalid_resource(sr, server_pen) ==
    IF sr.resource_type = "MirrorUsagePoint" THEN None
    ELSE IF sr.pen # server_pen THEN Some("mRID does not end with the PEN")
    ELSE None

\* WarningTracker.log_stored_resource_warning: the warnings afterwards.
log_stored_resource_warning(ws, sr, message) ==
    Append(ws, [message |-> message, step_execution |-> None, stored_resource |-> Some(sr)])

\* The inner loop of validate_all_resources over the resources of one store.
RECURSIVE validate_resources(_, _, _)
validate_resources(ws, srs, server_pen) ==
    IF srs = <<>> THEN ws
    ELSE LET error == is_invalid_resource(Head(srs), server_pen)
         IN  validate_resources(
                 IF error # None THEN log_stored_resource_warning(ws, Head(srs), error[1])
                 ELSE ws,
                 Tail(srs), server_pen)

\* The outer loop of validate_all_resources over the clients from the k-th on.
RECURSIVE validate_clients(_, _, _, _)
validate_clients(ws, stores, server_pen, k) ==
    IF k > Len(ClientOrder) THEN ws
    ELSE validate_clients(validate_resources(ws, stores[ClientOrder[k]], server_pen),
                          stores, server_pen, k + 1)

\* A variant of validate_all_resources that stops after the first client.
validate_first_client(ws, stores, server_pen) ==
    validate_resources(ws, stores[ClientOrder[1]], server_pen)

\* validate_all_resources: the warnings afterwards.
validate_all_resources(ws, stores, server_pen) ==
    validate_clients(ws, stores, server_pen, 1)

\* Lines 32 and 94-97: the queue is drained, the loop ends and the stores are
\* validated.
Finish ==
    /\ pc = "loop"
    /\ upcoming_step = None
    /\ pc' = "done"
    /\ completed' = Some(TRUE)
    /\ warnings' = validate_all_resources(warnings, discovered_resources, ServerPen)
    /\ last' = Iteration("finish", None, None, None, None)
    /\ UNCHANGED <<steps, queue, now, repeat_delay, current_step_execution,
                   progress_by_step_id, all_completions, all_results, responses,
                   evaluation, storeVars, actionVars>>

\* Lines 36-40: the upcoming step is not executable yet.
Delay(oversleep) ==
    /\ pc = "loop"
    /\ upcoming_step # None
    /\ LET upcoming == upcoming_step[1]
           delay_required == executable_delay_required(upcoming, now)
       IN /\ delay_required # 0
          /\ current_step_execution' = Some(upcoming)
          /\ progress_by_step_id' =
                 update_current_step(progress_by_step_id, upcoming, Some(delay_required))
          /\ now' = now + total_seconds_ticks(delay_required) + oversleep
          /\ last' = Iteration("delay", Some(upcoming),
                               Some(total_seconds_ticks(delay_required)), None, None)
    /\ UNCHANGED <<steps, queue, repeat_delay, pc, completed, all_completions,
                   all_results, warnings, responses, evaluation, storeVars,
                   actionVars>>

\* The guard of lines 36-45: a step-execution is popped for execution.
CanExecute ==
    /\ pc = "loop"
    /\ upcoming_step # None
    /\ executable_delay_required(upcoming_step[1], now) = 0
    /\ pop(queue, now)[1] # None

\* Lines 49-54: the action raises.
StepActionRaised(d, logs) ==
    /\ CanExecute
    /\ LET popped == pop(queue, now)
           current_step == popped[1][1]
           p0 == add_logs(update_current_step(progress_by_step_id, current_step, None),
                          current_step, logs)
           t == add_step_execution_exception(p0, all_completions, all_results,
                                             current_step, "action", now + d)
       IN /\ queue' = popped[2]
          /\ current_step_execution' = Some(current_step)
          /\ progress_by_step_id' = t[1]
          /\ all_completions' = t[2]
          /\ all_results' = t[3]
          /\ last' = Iteration("exception", Some(current_step), None, None, None)
    /\ now' = now + d
    /\ pc' = "done"
    /\ completed' = Some(FALSE)
    /\ UNCHANGED <<steps, repeat_delay, evaluation>>

\* Lines 56-61: the action returns (its result is dropped), the check raises.
StepCheckRaised(d, logs) ==
    /\ CanExecute
    /\ LET popped == pop(queue, now)
           current_step == popped[1][1]
           p0 == add_logs(update_current_step(progress_by_step_id, current_step, None),
                          current_step, logs)
           t == add_step_execution_exception(p0, all_completions, all_results,
                                             current_step, "check", now + d)
       IN /\ queue' = popped[2]
          /\ current_step_execution' = Some(current_step)
          /\ progress_by_step_id' = t[1]
          /\ all_completions' = t[2]
          /\ all_results' = t[3]
          /\ last' = Iteration("exception", Some(current_step), None, None, None)
    /\ now' = now + d
    /\ pc' = "done"
    /\ completed' = Some(FALSE)
    /\ UNCHANGED <<steps, repeat_delay, evaluation>>

\* Lines 63-92: the action and the check return.
StepReturned(d, action_result, check_result, logs) ==
    /\ CanExecute
    /\ LET popped == pop(queue, now)
           current_step == popped[1][1]
           p0 == add_logs(update_current_step(progress_by_step_id, current_step, None),
                          current_step, logs)
           c == add_step_execution_completion(p0, all_completions, current_step,
                                              action_result, check_result, now + d)
           step_passed == step_passed_of(action_result, check_result)
       IN /\ all_completions' = c[2]
          /\ IF wants_repeat(step_passed, action_result)
             THEN LET repeat_step == repeat_clone(current_step, action_result)
                  IN /\ queue' = add(popped[2], repeat_step)
                     /\ current_step_execution' = Some(current_step)
                     /\ progress_by_step_id' = c[1]
                     /\ now' = now + d
                     /\ last' = Iteration("repeat", Some(current_step), None,
                                          Some(action_result), Some(check_result))
                     /\ UNCHANGED <<all_results, pc, completed>>
             ELSE IF wants_retry(step_passed, steps[current_step.source])
             THEN LET repeat_step == retry_clone(current_step)
                      sleep == seconds_ticks(repeat_delay)
                  IN /\ queue' = add(popped[2], repeat_step)
                     /\ current_step_execution' = Some(repeat_step)
                     /\ progress_by_step_id' =
                            update_current_step(c[1], repeat_step, Some(repeat_delay))
                     /\ now' = now + d + sleep
                     /\ last' = Iteration("retry", Some(current_step), Some(sleep),
                                          Some(action_result), Some(check_result))
                     /\ UNCHANGED <<all_results, pc, completed>>
             ELSE LET r == set_step_result(c[1], all_results, current_step,
                                           action_result, check_result)
                  IN /\ queue' = popped[2]
                     /\ current_step_execution' = Some(current_step)
                     /\ progress_by_step_id' = r[1]
                     /\ all_results' = r[2]
                     /\ now' = now + d
                     /\ last' = Iteration("final", Some(current_step), None,
                                          Some(action_result), Some(check_result))
                     /\ IF breaks_loop(step_passed)
                        THEN pc' = "done" /\ completed' = Some(TRUE)
                        ELSE UNCHANGED <<pc, completed>>
    /\ UNCHANGED <<steps, repeat_delay, evaluation>>

\* The three ways an iteration executes a step, for actions and checks that
\* leave the trackers of warnings and responses and the stores alone.
ExecActionException(d) == StepActionRaised(d, <<>>) /\ UNCHANGED effectVars

ExecCheckException(d) == StepCheckRaised(d, <<>>) /\ UNCHANGED effectVars

ExecCompleted(d, action_result, check_result) ==
    StepReturned(d, action_result, check_result, <<>>) /\ UNCHANGED effectVars

InitialQueue(n) ==
    [i \in 1..n |-> StepExecution(i, i - 1, 0, None, 0)]

EmptyStore ==
    /\ resource_store = [k \in Kinds |-> None]
    /\ id_store = [i \in StoredIds |-> None]
    /\ store_result = None

\* No request was issued yet and the client has discovered no DERControl.
NoRequests ==
    /\ active_request = None
    /\ request_result = None
    /\ server_log = <<>>
    /\ der_controls = <<>>
    /\ annotations = <<>>
    /\ IdleHost

Init ==
    /\ steps \in [StepIds -> [id : StepIds, repeat_until_pass : BOOLEAN]]
    /\ \A i \in StepIds : steps[i].id = i
    /\ queue = InitialQueue(NumSteps)
    /\ now = 0
    /\ repeat_delay \in RepeatDelays
    /\ pc = "loop"
    /\ completed = None
    /\ current_step_execution = None
    /\ progress_by_step_id = <<>>
    /\ all_completions = <<>>
    /\ all_results = <<>>
    /\ warnings = <<>>
    /\ responses = <<>>
    /\ evaluation = None
    /\ EmptyStore
    /\ NoRequests
    /\ last = [iter |-> 0, kind |-> "init", se |-> None, at |-> 0, slept |-> None,
               action_result |-> None, check_result |-> None, queue_before |-> <<>>]

\* The iterations of a run, whatever its actions and checks do; the run is
\* followed for MaxIterations iterations.
WithinBounds == last.iter < MaxIterations

RunDelay(oversleep) == WithinBounds /\ Delay(oversleep)

RunActionException(d) == WithinBounds /\ ExecActionException(d)

RunCheckException(d) == WithinBounds /\ ExecCheckException(d)

RunCompleted(d, action_result, check_result) ==
    WithinBounds /\ ExecCompleted(d, action_result, check_result)

Next ==
    \/ Finish
    \/ \E o \in 0..MaxOversleep : RunDelay(o)
    \/ \E d \in ActionTicks : RunActionException(d)
    \/ \E d \in ActionTicks : RunCheckException(d)
    \/ \E d \in ActionTicks : \E ar \in ActionResults(now + d) :
       \E cr \in CheckResults : RunCompleted(d, ar, cr)

Spec == Init /\ [][Next]_vars

(***************************************************************************)
(* Scenario E1 (test_execute_for_context_success_cases_with_delays): step  *)
(* 1 asks once for a repeat 2 seconds later, step 2 is done at once, every *)
(* check passes.                                                           *)
(***************************************************************************)
DELAY_TIME == 2 * TicksPerSecond

\* The two steps of the scenario (the test has repeat_until_pass on step 1
\* only; no execution of the scenario fails, so the flags are left open).
E1Steps ==
    {<<[id |-> 1, repeat_until_pass |-> r1], [id |-> 2, repeat_until_pass |-> r2]>> :
        r1 \in BOOLEAN, r2 \in BOOLEAN}

\* handle_mock_execute_action for ACTION_REPEAT_ONCE_DELAY (step 1) and
\* ACTION_DONE (step 2), the action reading the clock at t.
E1Action(se, t) ==
    IF se.source = 1
    THEN IF se.repeat_number = 0
         THEN ActionResult(TRUE, TRUE, Some(t + DELAY_TIME))
         ELSE ActionResult_done
    ELSE ActionResult_done

\* handle_mock_execute_checks for CHECK_PASS.
E1Check == CheckResult(TRUE, None)

E1Delay(oversleep) == Delay(oversleep)

E1Execute(d) ==
    /\ CanExecute
    /\ ExecCompleted(d, E1Action(pop(queue, now)[1][1], now + d), E1Check)

InitE1 ==
    /\ steps \in E1Steps
    /\ queue = InitialQueue(2)
    /\ now = 0
    /\ repeat_delay \in RepeatDelays
    /\ pc = "loop"
    /\ completed = None
    /\ current_step_execution = None
    /\ progress_by_step_id = <<>>
    /\ all_completions = <<>>
    /\ all_results = <<>>
    /\ warnings = <<>>
    /\ responses = <<>>
    /\ evaluation = None
    /\ EmptyStore
    /\ NoRequests
    /\ last = [iter |-> 0, kind |-> "init", se |-> None, at |-> 0, slept |-> None,
               action_result |-> None, check_result |-> None, queue_before |-> <<>>]

NextE1 ==
    \/ Finish
    \/ \E o \in 0..MaxOversleep : E1Delay(o)
    \/ \E d \in ActionTicks : E1Execute(d)

SpecE1 == InitE1 /\ [][NextE1]_vars

(***************************************************************************)
(* The resource store driven by any sequence of its operations, as the     *)
(* actions drive it with what the server returns.                          *)
(***************************************************************************)
\* The number of resources held by the lists of all kinds.
RECURSIVE stored_count(_, _)
stored_count(rs, kinds) ==
    IF kinds = {} THEN 0
    ELSE LET k == CHOOSE x \in kinds : TRUE
         IN  Len(get_for_type(rs, k)) + stored_count(rs, kinds \ {k})

StoreCall(op, type, id, outcome) ==
    /\ stored_count(outcome.resource_store, Kinds) <= MaxStored
    /\ resource_store' = outcome.resource_store
    /\ id_store' = outcome.id_store
    /\ store_result' = Some([op |-> op, type |-> type, id |-> id,
                             raised |-> outcome.raised, returned |-> outcome.returned])

ArgId(parent, resource) ==
    IF resource.href = None THEN None ELSE Some(from_parent(parent, resource.href[1]))

StoreAppend(type, parent, resource) ==
    /\ StoreCall("append", Some(type), ArgId(parent, resource),
                 append_resource(resource_store, id_store, type, parent, resource))
    /\ UNCHANGED <<runVars, trackerVars, evaluation, actionVars>>

StoreUpsert(type, parent, resource) ==
    /\ StoreCall("upsert", Some(type), ArgId(parent, resource),
                 upsert_resource(resource_store, id_store, type, parent, resource))
    /\ UNCHANGED <<runVars, trackerVars, evaluation, actionVars>>

StoreDelete(id) ==
    /\ StoreCall("delete", None, Some(id), delete_resource(resource_store, id_store, id))
    /\ UNCHANGED <<runVars, trackerVars, evaluation, actionVars>>

StoreClearResource(type) ==
    /\ StoreCall("clear_resource", Some(type), None,
                 clear_resource(resource_store, id_store, type))
    /\ UNCHANGED <<runVars, trackerVars, evaluation, actionVars>>

StoreClear ==
    /\ StoreCall("clear", None, None, clear(resource_store, id_store))
    /\ UNCHANGED <<runVars, trackerVars, evaluation, actionVars>>

InitIdle ==
    /\ steps = [i \in StepIds |-> [id |-> i, repeat_until_pass |-> FALSE]]
    /\ queue = InitialQueue(NumSteps)
    /\ now = 0
    /\ repeat_delay = 0
    /\ pc = "loop"
    /\ completed = None
    /\ current_step_execution = None
    /\ progress_by_step_id = <<>>
    /\ all_completions = <<>>
    /\ all_results = <<>>
    /\ warnings = <<>>
    /\ responses = <<>>
    /\ evaluation = None
    /\ EmptyStore
    /\ NoRequests
    /\ last = [iter |-> 0, kind |-> "init", se |-> None, at |-> 0, slept |-> None,
               action_result |-> None, check_result |-> None, queue_before |-> <<>>]

NextStore ==
    \/ \E type \in Kinds, parent \in ParentIds, resource \in Resources :
           StoreAppend(type, parent, resource)
    \/ \E type \in Kinds, parent \in ParentIds, resource \in Resources :
           StoreUpsert(type, parent, resource)
    \/ \E id \in StoredIds : StoreDelete(id)
    \/ \E type \in Kinds : StoreClearResource(type)
    \/ StoreClear

SpecStore == InitIdle /\ [][NextStore]_vars

(***************************************************************************)
(* results/common.py: ResultsEvaluation, built by run_entrypoint from the  *)
(* trackers of the context and the ExecutionResult of the run.             *)
(***************************************************************************)
RECURSIVE count_xsd_errors(_, _)
count_xsd_errors(rs, i) ==
    IF i > Len(rs) THEN 0
    ELSE (IF rs[i].xsd_errors = None THEN 0 ELSE Len(rs[i].xsd_errors[1]))
         + count_xsd_errors(rs, i + 1)

ResultsEvaluation(procedure_steps, progress, ws, rs, execution_result) ==
    LET evaluated == {s \in DOMAIN procedure_steps :
                          s \in DOMAIN progress /\ progress[s].result # None}
        passed == {s \in evaluated : is_passed(progress[s].result[1])}
        total_steps == Cardinality(DOMAIN procedure_steps)
        total_warnings == Len(ws)
        total_xsd_errors == count_xsd_errors(rs, 1)
    IN  [execution_complete |-> execution_result.completed,
         total_steps |-> total_steps,
         total_steps_passed |-> Cardinality(passed),
         all_steps_evaluated |-> Cardinality(evaluated) = total_steps,
         all_steps_passed |-> Cardinality(passed) = total_steps,
         total_warnings |-> total_warnings,
         no_warnings |-> total_warnings = 0,
         total_xsd_errors |-> total_xsd_errors,
         no_xsd_errors |-> total_xsd_errors = 0,
         has_passed |-> /\ execution_result.completed
                        /\ Cardinality(passed) = total_steps
                        /\ total_warnings = 0
                        /\ total_xsd_errors = 0]

(***************************************************************************)
(* The trackers of a context filled by any calls of the actions and of the *)
(* execution loop, then evaluated once for an execution result.            *)
(***************************************************************************)
TrackerCalls == Len(all_results) + Len(warnings) + Len(responses)

CanTrack == evaluation = None /\ TrackerCalls < MaxTrackerCalls

TrackedExecution(step) == StepExecution(step, step - 1, 0, None, 0)

TrackStepResult(step, action_result, check_result) ==
    /\ CanTrack
    /\ LET r == set_step_result(progress_by_step_id, all_results,
                                TrackedExecution(step), action_result, check_result)
       IN  /\ progress_by_step_id' = r[1]
           /\ all_results' = r[2]
    /\ UNCHANGED <<runVars, all_completions, warnings, responses, evaluation, storeVars,
                   actionVars>>

TrackException(step) ==
    /\ CanTrack
    /\ LET r == add_step_execution_exception(progress_by_step_id, all_completions,
                                             all_results, TrackedExecution(step),
                                             "exc", now)
       IN  /\ progress_by_step_id' = r[1]
           /\ all_completions' = r[2]
           /\ all_results' = r[3]
    /\ UNCHANGED <<runVars, warnings, responses, evaluation, storeVars, actionVars>>

TrackWarning(step) ==
    /\ CanTrack
    /\ warnings' = log_step_warning(warnings, TrackedExecution(step), "warning")
    /\ UNCHANGED <<runVars, progress_by_step_id, all_completions, all_results,
                   responses, evaluation, storeVars, actionVars>>

TrackResponse(xsd_errors) ==
    /\ CanTrack
    /\ responses' = log_response_body(responses, xsd_errors)
    /\ UNCHANGED <<runVars, progress_by_step_id, all_completions, all_results,
                   warnings, evaluation, storeVars, actionVars>>

TrackNotification(xsd_errors) ==
    /\ CanTrack
    /\ responses' = log_notification_body(responses, xsd_errors)
    /\ UNCHANGED <<runVars, progress_by_step_id, all_completions, all_results,
                   warnings, evaluation, storeVars, actionVars>>

\* run_entrypoint: results = ResultsEvaluation(context, execution_result)
Evaluate(execution_result) ==
    /\ evaluation = None
    /\ evaluation' = Some(ResultsEvaluation(steps, progress_by_step_id, warnings,
                                            responses, execution_result))
    /\ completed' = Some(execution_result.completed)
    /\ pc' = "done"
    /\ UNCHANGED <<steps, queue, now, repeat_delay, current_step_execution, last,
                   trackerVars, storeVars, actionVars>>

NextEval ==
    \/ \E step \in StepIds, action_result \in ActionResults(0),
          check_result \in CheckResults :
           TrackStepResult(step, action_result, check_result)
    \/ \E step \in StepIds : TrackException(step)
    \/ \E step \in StepIds : TrackWarning(step)
    \/ \E xsd_errors \in XsdErrors : TrackResponse(xsd_errors)
    \/ \E xsd_errors \in XsdErrors : TrackNotification(xsd_errors)
    \/ \E c \in BOOLEAN : Evaluate(ExecutionResult(c))

SpecEval == InitIdle /\ [][NextEval]_vars

(***************************************************************************)
(* A run whose steps all are respond-der-controls, against a server that   *)
(* answers each submission and each refetch as it likes; between the steps *)
(* the stored DERControls are refreshed with the status the server gives   *)
(* them.                                                                   *)
(***************************************************************************)
\* The DERControls a run starts with: the first one with any setting of
\* replyTo and responseRequired and with or without an EndDevice above it,
\* the others asking for responses to an event that starts at once.
Responding == {DERControl(Some("/rsp"), Some(1), status, start, 1, Some("lfdi")) :
                   status \in EventStatusTypes, start \in {0, 1}}

NotResponding ==
    {DERControl(None, None, "Active", 0, 1, Some("lfdi")),
     DERControl(Some("/rsp"), None, "Active", 0, 1, Some("lfdi")),
     DERControl(Some("/rsp"), Some(1), "Active", 0, 1, None)}

InitialDERControls ==
    {ctls \in [1..NumControls -> Responding \cup NotResponding] :
         \A i \in 2..NumControls : /\ ctls[i] \in Responding
                                   /\ ctls[i].interval.start = 0}

\* The answers of the server to a submission of a response and to its
\* refetch: the success, and the failures (the refetch is not asked for when
\* the submission fails).
SubmitSucceeds ==
    <<Answer(201, Some("/loc"), TRUE, TRUE), Answer(200, None, TRUE, TRUE)>>

SubmitFails ==
    {<<Answer(201, Some("/loc"), TRUE, TRUE), Answer(404, None, FALSE, FALSE)>>,
     <<Answer(404, None, FALSE, FALSE), Answer(200, None, TRUE, TRUE)>>,
     <<ConnectionError, Answer(200, None, TRUE, TRUE)>>}

\* The server fails the submission for the control fail_at (none when 0).
SubmitAnswers(fail_at, failure) ==
    [i \in 1..NumControls |-> IF i = fail_at THEN failure ELSE SubmitSucceeds]

\* The time an execution of respond-der-controls takes.
RespondTicks == {1}

ApplyClientState(cs) ==
    /\ warnings' = cs.warnings
    /\ responses' = cs.responses
    /\ active_request' = cs.active_request
    /\ server_log' = cs.server_log

\* An iteration of the loop that executes respond-der-controls.
RespondExecute(d, answers, check_result) ==
    /\ WithinBounds
    /\ CanExecute
    /\ LET se == pop(queue, now)[1][1]
           out == action_respond_der_controls(ClientState, annotations, se,
                                              der_controls, now, answers)
       IN  /\ ApplyClientState(out.cs)
           /\ annotations' = out.annotations
           /\ UNCHANGED hostVars
           /\ request_result' = Some([raised |-> out.raised, returned |-> None])
           /\ IF out.raised # None
              THEN StepActionRaised(d, out.cs.logs)
              ELSE StepReturned(d, ActionResult_done, check_result, out.cs.logs)
    /\ UNCHANGED <<storeVars, der_controls>>

\* Between two steps the store is refreshed: the i-th DERControl is stored
\* again, once in a run, with the status the server now gives it.
RefreshControl(i, status) ==
    /\ pc = "loop"
    /\ der_controls[i].currentStatus # status
    /\ der_controls[i].version = 0
    /\ der_controls' = [der_controls EXCEPT ![i].currentStatus = status,
                                            ![i].version = @ + 1]
    /\ UNCHANGED <<runVars, trackerVars, evaluation, storeVars, active_request,
                   request_result, server_log, annotations, hostVars>>

InitDer ==
    /\ \E b \in BOOLEAN : steps = [i \in StepIds |-> [id |-> i, repeat_until_pass |-> b]]
    /\ queue = InitialQueue(NumSteps)
    /\ now = 0
    /\ repeat_delay = 0
    /\ pc = "loop"
    /\ completed = None
    /\ current_step_execution = None
    /\ progress_by_step_id = <<>>
    /\ all_completions = <<>>
    /\ all_results = <<>>
    /\ warnings = <<>>
    /\ responses = <<>>
    /\ evaluation = None
    /\ EmptyStore
    /\ active_request = None
    /\ request_result = None
    /\ server_log = <<>>
    /\ der_controls \in InitialDERControls
    /\ annotations = [i \in 1..NumControls |-> {}]
    /\ IdleHost
    /\ last = [iter |-> 0, kind |-> "init", se |-> None, at |-> 0, slept |-> None,
               action_result |-> None, check_result |-> None, queue_before |-> <<>>]

NextDer ==
    \/ Finish
    \/ \E d \in RespondTicks, check_result \in CheckResults :
           RespondExecute(d, SubmitAnswers(0, SubmitSucceeds), check_result)
    \/ \E d \in RespondTicks, fail_at \in 1..NumControls, failure \in SubmitFails,
          check_result \in CheckResults :
           RespondExecute(d, SubmitAnswers(fail_at, failure), check_result)
    \/ \E status \in EventStatusTypes : RefreshControl(1, status)

SpecDer == InitDer /\ [][NextDer]_vars


(***************************************************************************)
(* Vocabulary of the properties.                                           *)
(***************************************************************************)
Elems(seq) == {seq[i] : i \in DOMAIN seq}

\* A step-execution is executable at t: its not-before is unset or not after t.
Executable(se, t) == se.not_before = None \/ se.not_before[1] <= t

FinalResult(step) ==
    IF step \in DOMAIN progress_by_step_id
    THEN progress_by_step_id[step].result
    ELSE None

\* The latest iteration executed a step-execution whose action and check returned.
LastReturned == last.action_result # None /\ last.check_result # None

LastPassed ==
    /\ LastReturned
    /\ last.action_result[1].completed
    /\ last.check_result[1].passed

LastFailed == LastReturned /\ ~LastPassed

\* A completion that failed without raising.
FailedCompletion(c) ==
    /\ c.exc = None
    /\ ~(c.action_result[1].completed /\ c.check_result[1].passed)

RepeatUntilPass(step) == steps[step].repeat_until_pass

(***************************************************************************)
(* C1: once a step without repeat-until-pass fails (action not completed   *)
(* or check not passed), the run ends at that step: the failing execution  *)
(* is the last one executed, the loop has returned, the step-executions of *)
(* the other steps are still in the queue and those steps have no final    *)
(* result.                                                                 *)
(***************************************************************************)
C1_FailureHalts ==
    \A i \in DOMAIN all_completions :
        LET c == all_completions[i] IN
        (FailedCompletion(c) /\ ~RepeatUntilPass(c.step_execution.source)) =>
            /\ i = Len(all_completions)
            /\ pc = "done"
            /\ last.se = Some(c.step_execution)
            /\ Elems(queue) = Elems(last.queue_before) \ {c.step_execution}
            /\ Len(queue) = Len(last.queue_before) - 1
            /\ \A se \in Elems(queue) : FinalResult(se.source) = None

C1_Witness ==
    /\ pc = "done"
    /\ Len(all_completions) >= 2
    /\ FailedCompletion(all_completions[Len(all_completions)])
    /\ ~RepeatUntilPass(all_completions[Len(all_completions)].step_execution.source)
    /\ queue # <<>>

(***************************************************************************)
(* C2: whenever the queue holds two or more step-executions that are       *)
(* executable at now, pop(now) removes and returns the one with the        *)
(* strictly lowest primacy: every other executable one has a higher        *)
(* primacy and the rest of the queue is left as it was.                    *)
(***************************************************************************)
C2_PopLowestPrimacy ==
    LET ready == {se \in Elems(queue) : Executable(se, now)}
        popped == pop(queue, now)
    IN Cardinality(ready) >= 2 =>
        /\ popped[1] # None
        /\ popped[1][1] \in ready
        /\ \A se \in ready \ {popped[1][1]} : popped[1][1].primacy < se.primacy
        /\ Len(popped[2]) = Len(queue) - 1
        /\ Elems(popped[2]) = Elems(queue) \ {popped[1][1]}

\* Two executable step-executions, the one of lowest primacy not at the head.
C2_Witness ==
    /\ Len(queue) >= 2
    /\ \A se \in Elems(queue) : Executable(se, now)
    /\ queue[1].primacy > queue[2].primacy
    /\ pop(queue, now)[1] = Some(queue[2])

(***************************************************************************)
(* C3: the run returns completed=false exactly when an action or a check   *)
(* raised; the exception is then the step's result and the execution that  *)
(* raised is the last one. A run that ends because a step failed without   *)
(* raising, or because the queue is drained, returns completed=true.       *)
(***************************************************************************)
C3_CompletedFalseIffException ==
    LET raised == {i \in DOMAIN all_completions : all_completions[i].exc # None} IN
    /\ pc = "done" <=> completed # None
    /\ completed = Some(FALSE) <=> raised # {}
    /\ \A i \in raised :
           LET c == all_completions[i] IN
           /\ i = Len(all_completions)
           /\ pc = "done"
           /\ FinalResult(c.step_execution.source) # None
           /\ FinalResult(c.step_execution.source)[1].exc = c.exc
    /\ (pc = "done" /\ raised = {}) => completed = Some(TRUE)

C3_Witness ==
    /\ completed = Some(FALSE)
    /\ Len(all_completions) >= 2
    /\ queue # <<>>

\* The retry clone of a failed step-execution: attempts increased by 1, the
\* same step, repeat-number and primacy, not-before unset.
RetryOf(se) ==
    [source |-> se.source, primacy |-> se.primacy, repeat_number |-> se.repeat_number,
     not_before |-> None, attempts |-> se.attempts + 1]

\* The completions after index i whose step-execution is se.
LaterExecutions(i, se) ==
    {j \in DOMAIN all_completions : j > i /\ all_completions[j].step_execution = se}

(***************************************************************************)
(* C4 as stated: a failed step-execution is executed again if and only if  *)
(* its step has repeat-until-pass. Taken at the end of the run: every      *)
(* failed execution of a repeat-until-pass step was followed by an         *)
(* execution of its retry, and no failed execution of another step was.    *)
(***************************************************************************)
C4_RetriedIffRepeatUntilPass ==
    pc = "done" =>
        \A i \in DOMAIN all_completions :
            LET c == all_completions[i] IN
            FailedCompletion(c) =>
                (RepeatUntilPass(c.step_execution.source)
                    <=> LaterExecutions(i, RetryOf(c.step_execution)) # {})

(***************************************************************************)
(* C4 as amended: a failed step-execution is re-enqueued (attempts + 1) if *)
(* and only if its step has repeat-until-pass, whatever its attempts count *)
(* is, and the step has no final result while the retry waits; the retry   *)
(* is executed unless the run ends first because the execution of another  *)
(* step raised or failed finally. An execution that passes without asking  *)
(* for a repeat gives the step its passing final result and the run goes   *)
(* on.                                                                     *)
(***************************************************************************)
C4_RetryUnlessRunEnds ==
    \A i \in DOMAIN all_completions :
        LET c == all_completions[i]
            se == c.step_execution
            n == Len(all_completions)
        IN
        /\ (FailedCompletion(c) /\ RepeatUntilPass(se.source)) =>
               \/ LaterExecutions(i, RetryOf(se)) # {}
               \/ /\ RetryOf(se) \in Elems(queue)
                  /\ FinalResult(se.source) = None
                  /\ pc = "done" =>
                        /\ i < n
                        /\ all_completions[n].step_execution.source # se.source
                        /\ \/ all_completions[n].exc # None
                           \/ /\ FailedCompletion(all_completions[n])
                              /\ ~RepeatUntilPass(all_completions[n].step_execution.source)
        /\ (FailedCompletion(c) /\ ~RepeatUntilPass(se.source)) =>
               /\ LaterExecutions(i, RetryOf(se)) = {}
               /\ \A q \in Elems(queue) : q.source # se.source
               /\ FinalResult(se.source) # None
               /\ FinalResult(se.source)[1].failure_result # None
        /\ (c.exc = None /\ ~FailedCompletion(c) /\ ~c.action_result[1].repeat) =>
               /\ FinalResult(se.source) = Some([step |-> se.source,
                                                 failure_result |-> None, exc |-> None])
               /\ (i = n /\ last.se = Some(se)) => pc = "loop"

\* A step-execution failed twice and its second retry waits in the queue.
C4_Witness ==
    /\ Len(all_completions) >= 2
    /\ \E se \in Elems(queue) : se.attempts >= 2
    /\ \A i \in DOMAIN all_completions : FailedCompletion(all_completions[i])

\* The run has ended while a retry was still waiting.
C4_WitnessRunEnded ==
    /\ pc = "done"
    /\ \E se \in Elems(queue) : se.attempts >= 1

(***************************************************************************)
(* C5: when a step-execution fails and its step has repeat-until-pass,     *)
(* exactly one clone is added to the queue, with attempts increased by 1,  *)
(* the same repeat-number and primacy and not-before unset, and the loop   *)
(* then sleeps for the full repeat-delay.                                  *)
(***************************************************************************)
C5_RetryCloneAndFullSleep ==
    (LastFailed /\ RepeatUntilPass(last.se[1].source)) =>
        /\ queue = list_remove(last.queue_before, last.se[1]) \o <<RetryOf(last.se[1])>>
        /\ last.slept = Some(repeat_delay)

(***************************************************************************)
(* C6: when a step-execution passes and its action result asks for a       *)
(* repeat, exactly one clone is added to the queue, with repeat-number     *)
(* increased by 1, attempts 0 and the not-before of the action result, and *)
(* no final result is recorded for the step.                               *)
(***************************************************************************)
C6_RepeatClone ==
    (LastPassed /\ last.action_result[1].repeat) =>
        LET se == last.se[1] IN
        /\ Len(queue) = Len(last.queue_before)
        /\ Elems(queue) = (Elems(last.queue_before) \ {se}) \cup
               {[source |-> se.source, primacy |-> se.primacy,
                 repeat_number |-> se.repeat_number + 1,
                 not_before |-> last.action_result[1].not_before,
                 attempts |-> 0]}
        /\ FinalResult(se.source) = None
        /\ \A k \in DOMAIN all_results : all_results[k].step # se.source
        /\ pc = "loop"

\* A retry (attempts > 0) has passed and asked for a repeat at a later time.
C6_Witness ==
    /\ LastPassed
    /\ last.action_result[1].repeat
    /\ last.action_result[1].not_before # None
    /\ last.se[1].attempts > 0

(***************************************************************************)
(* C7: when the queue is non-empty and no step-execution is executable at  *)
(* now, peek-next-no-wait(now) returns the one with the soonest            *)
(* not-before; the loop then sleeps exactly that not-before minus now,     *)
(* after which the step-execution is executable, and it executes nothing   *)
(* that is not executable.                                                 *)
(***************************************************************************)
C7_DelayUntilSoonest ==
    /\ (queue # <<>> /\ \A se \in Elems(queue) : ~Executable(se, now)) =>
          LET upcoming == peek_next_no_wait(queue, now) IN
          /\ upcoming # None
          /\ upcoming[1] \in Elems(queue)
          /\ \A se \in Elems(queue) : upcoming[1].not_before[1] <= se.not_before[1]
    /\ (last.se # None /\ \A se \in Elems(last.queue_before) : ~Executable(se, last.at)) =>
          /\ last.kind = "delay"
          /\ \A se \in Elems(last.queue_before) :
                 last.se[1].not_before[1] <= se.not_before[1]
          /\ last.slept = Some(last.se[1].not_before[1] - last.at)
          /\ queue = last.queue_before
          /\ Executable(last.se[1], now)
    /\ (last.se # None /\ \E se \in Elems(last.queue_before) : Executable(se, last.at)) =>
          /\ last.kind # "delay"
          /\ Executable(last.se[1], last.at)

\* Two step-executions waited, the soonest not at the head, and the loop slept.
C7_Witness ==
    /\ last.kind = "delay"
    /\ Len(queue) >= 2
    /\ queue[2].not_before[1] < queue[1].not_before[1]
    /\ last.se = Some(queue[2])

(***************************************************************************)
(* C8: in scenario E1 the executions complete in the order step 1, step 2, *)
(* step 1; the repeat of step 1 does not start before its not-before, 2    *)
(* seconds after the first execution read the clock; when the run has      *)
(* ended all three executions have passed, both steps have a passing final *)
(* result and at least 2 seconds have gone by.                             *)
(***************************************************************************)
C8_ScenarioE1 ==
    LET n == Len(all_completions)
        order == [i \in 1..n |-> all_completions[i].step_execution.source]
        passed == [step |-> 0, failure_result |-> None, exc |-> None]
    IN
    /\ order = SubSeq(<<1, 2, 1>>, 1, n)
    /\ \A i \in 1..n : is_success(all_completions[i])
    /\ n = 3 =>
          LET first == all_completions[1]
              repeat == all_completions[3]
          IN /\ first.action_result[1].not_before # None
             /\ first.action_result[1].not_before[1] >= DELAY_TIME
             /\ repeat.step_execution.repeat_number = 1
             /\ repeat.step_execution.not_before = first.action_result[1].not_before
             /\ repeat.created_at >= first.action_result[1].not_before[1]
             /\ last.se = Some(repeat.step_execution) =>
                    last.at >= first.action_result[1].not_before[1]
    /\ pc = "done" =>
          /\ n = 3
          /\ completed = Some(TRUE)
          /\ queue = <<>>
          /\ now >= DELAY_TIME
          /\ FinalResult(1) = Some([passed EXCEPT !.step = 1])
          /\ FinalResult(2) = Some([passed EXCEPT !.step = 2])

C8_Witness ==
    /\ pc = "done"
    /\ Len(all_completions) = 3
    /\ steps \in E1Steps
    /\ steps[1].repeat_until_pass /\ ~steps[2].repeat_until_pass
    /\ all_completions[1].action_result[1].not_before # None

(***************************************************************************)
(* C9: the results evaluation is passed if and only if the execution       *)
(* completed, every step of the procedure has a final result that carries  *)
(* neither a failure nor an exception, no warning was logged and no logged *)
(* response or notification has an XSD error.                              *)
(***************************************************************************)
C9_PassedIffAllFour ==
    evaluation # None =>
        (evaluation[1].has_passed <=>
            /\ completed = Some(TRUE)
            /\ \A s \in StepIds :
                   /\ FinalResult(s) # None
                   /\ FinalResult(s)[1].failure_result = None
                   /\ FinalResult(s)[1].exc = None
            /\ warnings = <<>>
            /\ \A i \in DOMAIN responses :
                   responses[i].xsd_errors \in {None, Some(<<>>)})

C9_Witness ==
    /\ evaluation # None
    /\ evaluation[1].has_passed
    /\ evaluation[1].total_steps_passed = NumSteps
    /\ responses # <<>>

(***************************************************************************)
(* C10: after any sequence of append, upsert, delete and clear-kind calls  *)
(* the two indices hold the same stored resources: every resource of a     *)
(* by-kind list is in the list of its own kind and is the one get-by-id    *)
(* returns for its identifier, and every resource get-by-id returns is in  *)
(* the by-kind list of its kind.                                           *)
(***************************************************************************)
C10_IndicesConsistent ==
    /\ \A k \in Kinds : \A i \in DOMAIN get_for_type(resource_store, k) :
           LET r == get_for_type(resource_store, k)[i]
           IN  /\ r.resource_type = k
               /\ get_for_id(id_store, r.id) = Some(r)
    /\ \A id \in StoredIds :
           get_for_id(id_store, id) # None =>
               LET r == get_for_id(id_store, id)[1]
               IN  r \in Elems(get_for_type(resource_store, r.resource_type))

\* The entries (kind, position) of the by-kind lists that carry the identifier.
EntriesWithId(rs, id) ==
    UNION {{<<k, i>> : i \in {j \in DOMAIN get_for_type(rs, k) :
                                  get_for_type(rs, k)[j].id = id}} : k \in Kinds}

(***************************************************************************)
(* C11: the store holds at most one stored resource per identifier,        *)
(* counted over the lists of all kinds, and an append whose identifier is  *)
(* already stored raises and leaves both indices as they were.             *)
(***************************************************************************)
C11_OneResourcePerIdentifier ==
    [][/\ \A id \in StoredIds : Cardinality(EntriesWithId(resource_store', id)) <= 1
       /\ \A type \in Kinds, parent \in ParentIds, resource \in Resources :
              (/\ StoreAppend(type, parent, resource)
               /\ resource.href # None
               /\ id_store[from_parent(parent, resource.href[1])] # None)
              => /\ store_result'[1].raised = Some("CactusClientException")
                 /\ UNCHANGED <<resource_store, id_store>>]_vars

\* The second half of C11 alone: a duplicate append raises and changes nothing.
AppendDuplicateFails ==
    [][\A type \in Kinds, parent \in ParentIds, resource \in Resources :
              (/\ StoreAppend(type, parent, resource)
               /\ resource.href # None
               /\ id_store[from_parent(parent, resource.href[1])] # None)
              => /\ store_result'[1].raised = Some("CactusClientException")
                 /\ UNCHANGED <<resource_store, id_store>>]_vars

(***************************************************************************)
(* Properties of the responses to DERControls (SpecDer).                   *)
(***************************************************************************)
\* The Responses POSTed so far for the i-th DERControl with a status.
Posted(log, i, status) ==
    {k \in 1..Len(log) : /\ log[k].method = "POST"
                         /\ log[k].body # None
                         /\ log[k].body[1].subject = i
                         /\ log[k].body[1].status = status}

PostedFor(log, i) == UNION {Posted(log, i, status) : status \in ResponseTypes}

HasFinalTag(a) == has_tag(a, "EVENT_CANCELLED") \/ has_tag(a, "EVENT_SUPERSEDED")

\* The intervals and times determine_response_status is asked about.
MaxSeconds == 2

\* C12: once a DERControl has the tag EVENT_CANCELLED or EVENT_SUPERSEDED,
\* determine_response_status returns None for every event status, interval
\* and current time, and no call of respond-der-controls sends a further
\* Response for that control.
C12_FinalTagSilences ==
    /\ [](\A i \in 1..NumControls :
             HasFinalTag(annotations[i]) =>
                 \A status \in EventStatusTypes, start \in 0..MaxSeconds,
                    duration \in 0..MaxSeconds, t \in 0..(MaxSeconds * TicksPerSecond) :
                     determine_response_status(
                         status, annotations[i],
                         DERControl(Some("/rsp"), Some(1), status, start, duration,
                                    Some("lfdi")), t) = None)
    /\ [][\A i \in 1..NumControls :
              HasFinalTag(annotations[i]) =>
                  PostedFor(server_log', i) = PostedFor(server_log, i)]_vars

\* A Response with a final status was sent for a control, and a later call
\* of respond-der-controls sent a Response for another control only.
C12_Witness ==
    \E i \in 1..NumControls, k \in 1..Len(server_log) :
        /\ HasFinalTag(annotations[i])
        /\ k \in Posted(server_log, i, "EVENT_CANCELLED")
                 \cup Posted(server_log, i, "EVENT_SUPERSEDED")
        /\ \E j \in (k + 1)..Len(server_log) :
               /\ server_log[j].method = "POST"
               /\ server_log[j].body[1].subject # i
               /\ server_log[j].body[1].createdDateTime
                      > server_log[k].body[1].createdDateTime

\* C13: a Response EVENT_STARTED is sent for a DERControl only after a
\* Response EVENT_RECEIVED was sent for it, and EVENT_COMPLETED only after
\* EVENT_STARTED, over every sequence of calls of respond-der-controls.
C13_ReceivedStartedCompleted ==
    \A i \in 1..NumControls :
        /\ \A k \in Posted(server_log, i, "EVENT_STARTED") :
               \E j \in Posted(server_log, i, "EVENT_RECEIVED") : j < k
        /\ \A k \in Posted(server_log, i, "EVENT_COMPLETED") :
               \E j \in Posted(server_log, i, "EVENT_STARTED") : j < k

\* The three Responses were sent for one control.
C13_Witness ==
    \E i \in 1..NumControls :
        /\ Posted(server_log, i, "EVENT_COMPLETED") # {}
        /\ annotations[i] = {"EVENT_RECEIVED", "EVENT_STARTED", "EVENT_COMPLETED"}

\* C14: for each DERControl a Response with a given status is POSTed at most
\* once during a run, over every sequence of executions of
\* respond-der-controls, the retries of a failed step included.
C14_ResponsePostedOnce ==
    \A i \in 1..NumControls, status \in ResponseTypes :
        Cardinality(Posted(server_log, i, status)) <= 1

\* A step was retried after its check failed, respond-der-controls ran again
\* and sent nothing more for a control it had responded to.
C14_Witness ==
    /\ last.iter >= 2
    /\ last.kind = "retry"
    /\ \E i \in 1..NumControls :
           /\ annotations[i] = {"EVENT_RECEIVED"}
           /\ Posted(server_log, i, "EVENT_RECEIVED") # {}
           /\ \A j \in 1..NumControls \ {i} : PostedFor(server_log, j) = {}
           /\ Len(server_log) = 2

\* The requests a call of respond-der-controls added to the log of the server.
NewRequests == (Len(server_log) + 1)..Len(server_log')

SubmissionSucceeded(log, k) ==
    /\ k < Len(log)
    /\ log[k].answer.kind = "response"
    /\ log[k].answer.status \in 200..299
    /\ log[k].answer.location # None
    /\ log[k + 1].method = "GET"
    /\ log[k + 1].answer.kind = "response"
    /\ log[k + 1].answer.status \in 200..299
    /\ log[k + 1].answer.parses

\* C15: respond-der-controls adds a tag to a DERControl only after the
\* submit-and-refetch of that Response succeeded; when the submission fails
\* no tag is added for that control, and the tags of the controls no
\* Response was submitted for are unchanged.
C15_TagAfterSuccessfulSubmission ==
    [][\A i \in 1..NumControls :
           /\ \A tag \in annotations'[i] \ annotations[i] :
                  \E k \in NewRequests :
                      /\ k \in Posted(server_log', i, tag)
                      /\ SubmissionSucceeded(server_log', k)
           /\ (\E k \in NewRequests : /\ k \in PostedFor(server_log', i)
                                      /\ ~SubmissionSucceeded(server_log', k))
                  => annotations'[i] = annotations[i]
           /\ (\A k \in NewRequests : k \notin PostedFor(server_log', i))
                  => annotations'[i] = annotations[i]
           /\ annotations[i] \subseteq annotations'[i]]_vars

\* A call tagged the first control and failed on the submission for the
\* second, which has no tag.
C15_Witness ==
    /\ request_result # None
    /\ request_result[1].raised # None
    /\ Len(server_log) >= 3
    /\ annotations[1] # {}
    /\ annotations[2] = {}
    /\ PostedFor(server_log, 2) # {}
    /\ \E k \in PostedFor(server_log, 1) : SubmissionSucceeded(server_log, k)

(***************************************************************************)
(* The progression of the responses to one Active DERControl: the Active   *)
(* rows of test_action_respond_der_controls_with_previous_responses, as    *)
(* three successive calls of action_respond_der_controls on one context.   *)
(***************************************************************************)
\* time_offset = -300 and duration = 3600 of the rows for an Active control
\* that has started.
E4_SECONDS_SINCE_START == 300

E4_DURATION == 3600

E4_CALLS == 3

\* The ticks that pass between two calls.
E4Ticks == 0..3

E4Step == StepExecution(1, 0, 0, None, 0)

\* The server accepts the Response; the refetched Response matches the
\* submitted one or not.
E4Answers(matches) ==
    <<<<Answer(201, Some("/loc"), TRUE, TRUE), Answer(200, None, TRUE, matches)>>>>

\* One call of action_respond_der_controls, d ticks before the next.
E4Respond(d, matches) ==
    /\ last.iter < E4_CALLS
    /\ LET out == action_respond_der_controls(ClientState, annotations, E4Step,
                                              der_controls, now, E4Answers(matches))
       IN  /\ ApplyClientState(out.cs)
           /\ annotations' = out.annotations
           /\ UNCHANGED hostVars
           /\ request_result' = Some([raised |-> out.raised, returned |-> None])
           /\ progress_by_step_id' = add_logs(progress_by_step_id, E4Step, out.cs.logs)
           /\ last' = Iteration("call", Some(E4Step), None,
                                IF out.raised = None THEN Some(ActionResult_done)
                                ELSE None, None)
    /\ now' = now + d
    /\ UNCHANGED <<steps, queue, repeat_delay, pc, completed, current_step_execution,
                   all_completions, all_results, evaluation, storeVars, der_controls>>

InitE4 ==
    /\ steps = [i \in StepIds |-> [id |-> i, repeat_until_pass |-> FALSE]]
    /\ queue = InitialQueue(NumSteps)
    /\ now = E4_SECONDS_SINCE_START * TicksPerSecond
    /\ repeat_delay = 0
    /\ pc = "loop"
    /\ completed = None
    /\ current_step_execution = None
    /\ progress_by_step_id = <<>>
    /\ all_completions = <<>>
    /\ all_results = <<>>
    /\ warnings = <<>>
    /\ responses = <<>>
    /\ evaluation = None
    /\ EmptyStore
    /\ active_request = None
    /\ request_result = None
    /\ server_log = <<>>
    /\ der_controls = <<DERControl(Some("/rsp"), Some(1), "Active", 0, E4_DURATION,
                                   Some("lfdi"))>>
    /\ annotations = <<{}>>
    /\ IdleHost
    /\ last = [iter |-> 0, kind |-> "init", se |-> None, at |-> 0, slept |-> None,
               action_result |-> None, check_result |-> None, queue_before |-> <<>>]

NextE4 == \E d \in E4Ticks, matches \in BOOLEAN : E4Respond(d, matches)

SpecE4 == InitE4 /\ [][NextE4]_vars

\* The statuses of the Responses POSTed so far, in their order.
RECURSIVE PostedStatuses(_)
PostedStatuses(log) ==
    IF log = <<>> THEN <<>>
    ELSE IF Head(log).method = "POST"
    THEN <<Head(log).body[1].status>> \o PostedStatuses(Tail(log))
    ELSE PostedStatuses(Tail(log))

MaxRequests == 2

RequestStep == StepExecution(1, 0, 0, None, 0)

RequestMethods == {"GET", "POST"}

RateLimited == Answer(429, None, FALSE, FALSE)

\* What the server would answer to the successive attempts of one request.
RequestScripts ==
    {<<a>> : a \in ServerAnswers}
    \cup {<<RateLimited, Answer(200, None, TRUE, TRUE)>>, <<RateLimited, RateLimited>>}

\* One call of request_for_step: the request is issued once and gets the
\* first answer of the script.
Request(method, path, script) ==
    /\ Len(server_log) < MaxRequests
    /\ LET r == request_for_step(ClientState, RequestStep, path, method, None, Head(script))
       IN  /\ ApplyClientState(r.cs)
           /\ progress_by_step_id' = add_logs(progress_by_step_id, RequestStep, r.cs.logs)
           /\ request_result' =
                  Some([method |-> method, path |-> path, script |-> script,
                        raised |-> r.raised, returned |-> r.returned,
                        attempts |-> Len(r.cs.server_log) - Len(server_log),
                        logged |-> Len(r.cs.responses) - Len(responses)])
    /\ UNCHANGED <<runVars, all_completions, all_results, evaluation, storeVars,
                   der_controls, annotations, hostVars>>

NextRequest ==
    \E method \in RequestMethods, path \in Hrefs, script \in RequestScripts :
        Request(method, path, script)

SpecRequest == InitIdle /\ [][NextRequest]_vars

\* C17: when the server answers 429, request_for_step waits and issues the
\* request again, logging every attempt, and returns the first answer that is
\* not 429: a server answering 429 then 200 yields two log entries and a
\* successful result.
C17_RetryOn429 ==
    request_result # None =>
        LET r == request_result[1]
        IN  (/\ Len(r.script) = 2
             /\ r.script[1] = RateLimited
             /\ r.script[2] = Answer(200, None, TRUE, TRUE))
                => /\ r.raised = None
                   /\ r.returned # None
                   /\ r.returned[1].status = 200
                   /\ r.attempts = 2
                   /\ r.logged = 2

\* The request the server answers with 429 is issued once and the 429 is
\* what request_for_step returns.
RateLimitedIsReturned ==
    request_result # None =>
        LET r == request_result[1]
        IN  r.script[1] = RateLimited
                => /\ r.raised = None
                   /\ r.returned[1].status = 429
                   /\ r.attempts = 1
                   /\ r.logged = 1

\* C18: the active request of the response tracker is empty again whenever
\* request_for_step has returned or raised, a connection or IO error
\* included.
C18_ActiveRequestCleared ==
    request_result # None => active_request = None

\* The active request is cleared when request_for_step returns and when the
\* body cannot be read; a failing connection leaves it set and leaves the
\* function as the error of the HTTP library.
ActiveRequestClearedUnlessConnectionFails ==
    request_result # None =>
        LET r == request_result[1]
        IN  /\ r.script[1] # ConnectionError => active_request = None
            /\ r.script[1] = ReadError => r.raised = Some("RequestException")
            /\ r.script[1] = ConnectionError
                   => /\ active_request = Some([method |-> r.method, url |-> r.path])
                      /\ r.raised = Some("ClientConnectionError")

(***************************************************************************)
(* action/refresh_resource.py: refresh-resource, as the action of the      *)
(* steps of a run.                                                         *)
(***************************************************************************)
\* client_error_request_for_step: answer.parses says whether the body parses
\* as an ErrorResponse.
client_error_request_for_step(cs, se, path, method, answer) ==
    LET r == request_for_step(cs, se, path, method, None, answer)
    IN  IF r.raised # None THEN r
        ELSE IF ~is_client_error(r.returned[1])
        THEN CallOutcome(r.cs, Some("RequestException"), None)
        ELSE IF ~answer.parses
        THEN CallOutcome(r.cs, Some("RequestException"), None)
        ELSE CallOutcome(r.cs, None, Some(answer))

\* is_list_resource, for the kinds of the model: neither is a list.
is_list_resource(type) == FALSE

\* What action_refresh_resource leaves behind: the client state, the stores,
\* the exception it raised (None when it returned) and the ActionResult.
RefreshOutcome(cs, rs, ids, raised, returned) ==
    [cs |-> cs, resource_store |-> rs, id_store |-> ids, raised |-> raised,
     returned |-> returned]

\* Lines 56-59: a RequestException becomes ActionResult.failed; any other
\* exception leaves the action.
request_failed(r, rs, ids) ==
    IF r.raised = Some("RequestException")
    THEN RefreshOutcome(r.cs, rs, ids, None, Some(ActionResult_failed))
    ELSE RefreshOutcome(r.cs, rs, ids, r.raised, None)

\* The loop of lines 36-59 over the list get_for_type returned, which is the
\* list the store holds, from its i-th entry on; answers[i] is the answer of
\* the server to the request for the i-th entry, and the resource it sends is
\* the one at the href asked for.
RECURSIVE refresh_loop(_, _, _, _, _, _, _, _, _)
refresh_loop(i, cs, rs, ids, se, resource_type, expect_rejection, expect_rejection_or_empty, answers) ==
    LET matching_resources == get_for_type(rs, resource_type)
    IN  IF i > Len(matching_resources)
        THEN RefreshOutcome(cs, rs, ids, None, Some(ActionResult_done))
        ELSE LET sr == matching_resources[i]
                 href == sr.resource.href
             IN  IF href = None
                 THEN refresh_loop(i + 1, cs, rs, ids, se, resource_type, expect_rejection,
                                   expect_rejection_or_empty, answers)
                 ELSE IF expect_rejection
                         \/ (expect_rejection_or_empty /\ ~is_list_resource(resource_type))
                 THEN LET r == client_error_request_for_step(cs, se, href[1], "GET",
                                                             answers[i])
                      IN  IF r.raised # None THEN request_failed(r, rs, ids)
                          ELSE refresh_loop(i + 1, r.cs, rs, ids, se, resource_type,
                                            expect_rejection, expect_rejection_or_empty,
                                            answers)
                 ELSE LET r == get_resource_for_step(cs, se, href[1], answers[i])
                      IN  IF r.raised # None THEN request_failed(r, rs, ids)
                          ELSE LET fetched_resource == [href |-> href, body |-> "v2"]
                                   u == upsert_resource(rs, ids, resource_type,
                                                        parent_id(sr.id), fetched_resource)
                               IN  IF u.raised # None
                                   THEN RefreshOutcome(r.cs, rs, ids, u.raised, None)
                                   ELSE refresh_loop(i + 1, r.cs, u.resource_store,
                                                     u.id_store, se, resource_type,
                                                     expect_rejection,
                                                     expect_rejection_or_empty, answers)

action_refresh_resource(cs, rs, ids, se, resource_type, expect_rejection, expect_rejection_or_empty, answers) ==
    IF Len(get_for_type(rs, resource_type)) = 0
    THEN RefreshOutcome(cs, rs, ids, Some("CactusClientException"), None)
    ELSE refresh_loop(1, cs, rs, ids, se, resource_type, expect_rejection,
                      expect_rejection_or_empty, answers)

\* The kind the steps refresh and the resources stored of it.
RefreshedKind == "EndDevice"

RefreshedHrefs == <<"/a", "/b">>

\* The answers that let the refresh of a resource go on, and the request
\* failures: no connection, a body that cannot be read, an unexpected status.
RefreshSucceeds(expect_rejection) ==
    IF expect_rejection THEN Answer(400, None, TRUE, TRUE)
    ELSE Answer(200, None, TRUE, TRUE)

RefreshFails(expect_rejection) ==
    {ConnectionError, ReadError,
     IF expect_rejection THEN Answer(200, None, TRUE, TRUE)
     ELSE Answer(404, None, FALSE, FALSE)}

RefreshAnswers(expect_rejection, fail_at, failure) ==
    [i \in 1..Len(RefreshedHrefs) |->
        IF i = fail_at THEN failure ELSE RefreshSucceeds(expect_rejection)]

\* An iteration of the loop that executes refresh-resource, the server
\* failing the request for the resource fail_at (none when 0).
RefreshExecute(d, fail_at, failure, check_result) ==
    /\ WithinBounds
    /\ CanExecute
    /\ fail_at # 0 => failure \in RefreshFails(steps[1].expect_rejection)
    /\ fail_at <= Len(get_for_type(resource_store, RefreshedKind))
    /\ LET se == pop(queue, now)[1][1]
           expect_rejection == steps[se.source].expect_rejection
           out == action_refresh_resource(
                      ClientState, resource_store, id_store, se, RefreshedKind,
                      expect_rejection, FALSE,
                      RefreshAnswers(expect_rejection, fail_at, failure))
       IN  /\ ApplyClientState(out.cs)
           /\ resource_store' = out.resource_store
           /\ id_store' = out.id_store
           /\ request_result' =
                  Some([failure |-> IF fail_at = 0 THEN None ELSE Some(failure),
                        repeat_until_pass |-> steps[se.source].repeat_until_pass,
                        raised |-> out.raised, returned |-> out.returned])
           /\ IF out.raised # None
              THEN StepActionRaised(d, out.cs.logs)
              ELSE StepReturned(d, out.returned[1], check_result, out.cs.logs)
    /\ UNCHANGED <<store_result, der_controls, annotations, hostVars>>

\* The store of a run that has discovered the resources to refresh.
RECURSIVE DiscoveredStore(_)
DiscoveredStore(n) ==
    IF n = 0
    THEN StoreOutcome([k \in Kinds |-> None], [i \in StoredIds |-> None], None, None)
    ELSE LET o == DiscoveredStore(n - 1)
         IN  append_resource(o.resource_store, o.id_store, RefreshedKind, None,
                             [href |-> Some(RefreshedHrefs[n]), body |-> "v1"])

InitRefresh ==
    /\ \E b \in BOOLEAN, e \in BOOLEAN :
           steps = [i \in StepIds |->
                       [id |-> i, repeat_until_pass |-> b, expect_rejection |-> e]]
    /\ queue = InitialQueue(NumSteps)
    /\ now = 0
    /\ repeat_delay \in RepeatDelays
    /\ pc = "loop"
    /\ completed = None
    /\ current_step_execution = None
    /\ progress_by_step_id = <<>>
    /\ all_completions = <<>>
    /\ all_results = <<>>
    /\ warnings = <<>>
    /\ responses = <<>>
    /\ evaluation = None
    /\ \E n \in 1..Len(RefreshedHrefs) :
           /\ resource_store = DiscoveredStore(n).resource_store
           /\ id_store = DiscoveredStore(n).id_store
    /\ store_result = None
    /\ NoRequests
    /\ der_controls = <<>>
    /\ annotations = <<>>
    /\ IdleHost
    /\ last = [iter |-> 0, kind |-> "init", se |-> None, at |-> 0, slept |-> None,
               action_result |-> None, check_result |-> None, queue_before |-> <<>>]

NextRefresh ==
    \/ Finish
    \/ \E d \in RespondTicks, check_result \in CheckResults :
           RefreshExecute(d, 0, ConnectionError, check_result)
    \/ \E d \in RespondTicks, fail_at \in 1..Len(RefreshedHrefs),
          failure \in RefreshFails(TRUE) \cup RefreshFails(FALSE),
          check_result \in CheckResults :
           RefreshExecute(d, fail_at, failure, check_result)

SpecRefresh == InitRefresh /\ [][NextRefresh]_vars

\* A request of the last execution of refresh-resource failed.
RequestFailed ==
    /\ request_result # None
    /\ request_result[1].failure # None
    /\ last.kind \in {"exception", "retry", "final", "repeat"}

\* C19: a connection error or any other request failure while refreshing a
\* stored resource does not abort the run: the action returns a failed
\* ActionResult, the step is retried when it has repeat_until_pass and gets
\* a failed final result, the run ending with completed = TRUE, otherwise.
C19_RequestFailureIsRetryable ==
    RequestFailed =>
        /\ request_result[1].raised = None
        /\ request_result[1].returned = Some(ActionResult_failed)
        /\ completed # Some(FALSE)
        /\ request_result[1].repeat_until_pass => last.kind = "retry"
        /\ ~request_result[1].repeat_until_pass
               => /\ last.kind = "final"
                  /\ completed = Some(TRUE)
                  /\ ~is_passed(all_results[Len(all_results)])

\* The part that holds: the failures that reach the action as a
\* RequestException are returned as a failed ActionResult, and only the
\* failing connection ends the run with completed = FALSE.
RequestExceptionIsRetryable ==
    RequestFailed =>
        IF request_result[1].failure[1] = ConnectionError
        THEN /\ request_result[1].raised = Some("ClientConnectionError")
             /\ last.kind = "exception"
             /\ completed = Some(FALSE)
        ELSE /\ request_result[1].returned = Some(ActionResult_failed)
             /\ completed # Some(FALSE)
             /\ (request_result[1].repeat_until_pass => last.kind = "retry")
             /\ (~request_result[1].repeat_until_pass
                    => last.kind = "final" /\ completed = Some(TRUE))

(***************************************************************************)
(* action/server.py: paginate_list_resource_items.                         *)
(***************************************************************************)
MaxPages == 2

PageSizes == {1, 2}

\* build_paging_params(start, limit) appended to the href of the list: the
\* query string, by its parts.
build_paging_params(start, limit) == <<"?", <<"s", start>>, "&", <<"l", limit>>>>

page_href(list_href, start, limit) == <<list_href>> \o build_paging_params(start, limit)

\* A page the server answers with: n items and the attributes 'all' and
\* 'results' (None when missing); or an answer get_resource_for_step
\* rejects. The j-th item of the k-th page requested is <<k, j>>.
ListPage(n, all_, results) ==
    [kind |-> "response", status |-> 200, location |-> None, parses |-> TRUE,
     matches |-> TRUE, n |-> n, all_ |-> all_, results |-> results]

RejectedPage ==
    [kind |-> "response", status |-> 404, location |-> None, parses |-> FALSE,
     matches |-> FALSE, n |-> 0, all_ |-> None, results |-> None]

\* Pages of a list of two items (one of them with a wrong 'results'), pages
\* that say the list has three, and a page without the attributes.
ListPages ==
    {ListPage(0, Some(2), Some(0)), ListPage(1, Some(2), Some(2)),
     ListPage(2, Some(2), Some(2)), ListPage(2, Some(3), Some(2)),
     ListPage(0, Some(3), Some(0)), ListPage(1, None, None), RejectedPage}

page_items(k, page) == [j \in 1..page.n |-> <<k, j>>]

\* Lines 260-268 of fetch_list_page: the warnings about the attributes.
attribute_warnings(ws, se, page, latest_items) ==
    LET w1 == IF page.results = None THEN log_step_warning(ws, se, "Missing 'results'")
              ELSE IF page.results[1] # Len(latest_items)
              THEN log_step_warning(ws, se, "'results' attribute shows")
              ELSE ws
    IN  IF page.all_ = None THEN log_step_warning(w1, se, "Missing 'all'") ELSE w1

\* fetch_list_page: the k-th request, for the page at start.
fetch_list_page(cs, se, list_href, start, limit, k, page) ==
    LET r == get_resource_for_step(cs, se, page_href(list_href, start, limit), page)
    IN  IF r.raised # None THEN [cs |-> r.cs, raised |-> r.raised, items |-> <<>>,
                                 received_all |-> None]
        ELSE LET latest_items == page_items(k, page)
             IN  [cs |-> [r.cs EXCEPT !.warnings =
                              attribute_warnings(@, se, page, latest_items)],
                  raised |-> None, items |-> latest_items, received_all |-> page.all_]

\* The safety valve tested after the request that goes over it.
safety_valve_late(pages_requested, max_pages_requested) ==
    pages_requested > max_pages_requested

\* Line 207: the safety valve.
safety_valve(pages_requested, max_pages_requested) ==
    pages_requested >= max_pages_requested

\* The final check without the comparison of 'all' with the items returned.
check_all_values_varied_only(cs, se, every_all_value, all_items) ==
    IF Cardinality({every_all_value[i] : i \in DOMAIN every_all_value}) > 1
    THEN [cs EXCEPT !.warnings = log_step_warning(@, se, "'all' has varied")]
    ELSE cs

\* Lines 211-220: the final check of the 'all' attributes.
check_all_values(cs, se, every_all_value, all_items) ==
    LET expected_count == IF Len(every_all_value) = 0 THEN 0 ELSE every_all_value[1]
    IN  IF Cardinality({every_all_value[i] : i \in DOMAIN every_all_value}) > 1
        THEN [cs EXCEPT !.warnings = log_step_warning(@, se, "'all' has varied")]
        ELSE IF expected_count # Len(all_items)
        THEN [cs EXCEPT !.warnings = log_step_warning(@, se, "'all' indicated")]
        ELSE cs

\* The loop of paginate_list_resource_items; pages[k] answers the k-th
\* request.
RECURSIVE paginate_loop(_, _, _, _, _, _, _, _, _, _)
paginate_loop(cs, se, list_href, page_size, max_pages_requested, pages, pages_requested, start, every_all_value, all_items) ==
    LET k == Len(cs.server_log) - Len(server_log) + 1
        p == fetch_list_page(cs, se, list_href, start, page_size, k, pages[k])
        items == all_items \o p.items
        alls == IF p.received_all # None THEN Append(every_all_value, p.received_all[1])
                ELSE every_all_value
    IN  IF p.raised # None THEN CallOutcome(p.cs, p.raised, None)
        ELSE IF Len(p.items) = 0
        THEN CallOutcome(check_all_values(p.cs, se, alls, items), None, Some(items))
        ELSE IF safety_valve(pages_requested + 1, max_pages_requested)
        THEN CallOutcome(p.cs, Some("RequestException"), None)
        ELSE paginate_loop(p.cs, se, list_href, page_size, max_pages_requested, pages,
                           pages_requested + 1, start + page_size, alls, items)

paginate_list_resource_items(cs, se, list_href, page_size, max_pages_requested, pages) ==
    paginate_loop(cs, se, list_href, page_size, max_pages_requested, pages, 0, 0,
                  <<>>, <<>>)

\* One call of paginate_list_resource_items on a fresh context.
Paginate(list_href, page_size, max_pages_requested, pages) ==
    /\ request_result = None
    /\ LET r == paginate_list_resource_items(ClientState, RequestStep, list_href,
                                             page_size, max_pages_requested, pages)
       IN  /\ ApplyClientState(r.cs)
           /\ progress_by_step_id' = add_logs(progress_by_step_id, RequestStep, r.cs.logs)
           /\ request_result' =
                  Some([list_href |-> list_href, page_size |-> page_size,
                        max_pages_requested |-> max_pages_requested, pages |-> pages,
                        raised |-> r.raised, returned |-> r.returned])
    /\ UNCHANGED <<runVars, all_completions, all_results, evaluation, storeVars,
                   der_controls, annotations, hostVars>>

NextPaginate ==
    \E list_href \in Hrefs, page_size \in PageSizes, max_pages_requested \in 1..MaxPages,
       pages \in [1..(MaxPages + 1) -> ListPages] :
        Paginate(list_href, page_size, max_pages_requested, pages)

SpecPaginate == InitIdle /\ [][NextPaginate]_vars

\* The items of the first k pages, in page order.
RECURSIVE ItemsOfPages(_, _)
ItemsOfPages(pages, k) ==
    IF k = 0 THEN <<>> ELSE ItemsOfPages(pages, k - 1) \o page_items(k, pages[k])

WarningsWith(message) == {k \in 1..Len(warnings) : warnings[k].message = message}

SubmittedResources ==
    [changedTime : {Some(IntVal(1000))}, sFDI : {Some(IntVal(12345))},
     postRate : {None, Some(IntVal(60))},
     lFDI : {None, Some(StrVal(<<"0", "a">>))},
     FunctionSetAssignments : {None, Some(ListVal(<<>>))}]

\* What the server returns for it.
ReturnedResources ==
    [changedTime : {None, Some(IntVal(1000)), Some(IntVal(1005)), Some(IntVal(1006))},
     sFDI : {Some(IntVal(12345)), Some(IntVal(1))},
     postRate : {None, Some(IntVal(60)), Some(IntVal(30))},
     lFDI : {None, Some(StrVal(<<"A">>)), Some(StrVal(<<"b">>))},
     FunctionSetAssignments : {None, Some(ListVal(<<1>>))}]

\* The answers to the submission: created, created without a Location
\* header, rejected.
WriteAnswers ==
    {Answer(201, Some("/loc"), TRUE, TRUE), Answer(201, None, TRUE, TRUE),
     Answer(404, None, FALSE, FALSE)}

\* ServerConfig.refetch_delay_ms of the context, in ticks: 0 and 2000 ms.
RefetchDelays == {0, 2 * TicksPerSecond}

\* Lines 131-147: the time between the arrival of the response to the
\* submission and the refetch. Nothing is awaited in between and
\* refetch_delay_ms is not read.
refetch_wait(refetch_delay) == 0

\* One call of submit_and_refetch_resource_for_step.
Submit(submitted, returned, answer, refetch_delay) ==
    /\ request_result = None
    /\ LET r == submit_and_refetch_resource_for_step(
                    ClientState, RequestStep, "POST", "/a", submitted, FALSE, answer,
                    ResourceAnswer(returned))
       IN  /\ ApplyClientState(r.cs)
           /\ progress_by_step_id' = add_logs(progress_by_step_id, RequestStep, r.cs.logs)
           /\ request_result' =
                  Some([submitted |-> submitted, refetched |-> returned,
                        answer |-> answer, refetch_delay |-> refetch_delay,
                        raised |-> r.raised, returned |-> r.returned,
                        write_at |-> now,
                        refetch_at |-> now + refetch_wait(refetch_delay)])
           /\ now' = now + refetch_wait(refetch_delay)
    /\ UNCHANGED <<steps, queue, repeat_delay, pc, completed, current_step_execution,
                   last, all_completions, all_results, evaluation, storeVars,
                   der_controls, annotations, hostVars>>

NextSubmit ==
    \E submitted \in SubmittedResources, returned \in ReturnedResources,
       answer \in WriteAnswers, refetch_delay \in RefetchDelays :
        Submit(submitted, returned, answer, refetch_delay)

SpecSubmit == InitIdle /\ [][NextSubmit]_vars

\* The refetch was made and answered.
Refetched ==
    /\ request_result # None
    /\ Len(server_log) = 2

\* The keys on which the submitted and the refetched resource differ.
DifferingKeys(submitted, refetched) ==
    {key \in PropertyKeys : submitted[key] # None /\ submitted[key] # refetched[key]}

DifferenceWarned ==
    /\ Refetched
    /\ request_result[1].refetched.sFDI = Some(IntVal(1))
    /\ Len(warnings) = 1

\* C23: the refetch GET is sent no earlier than refetch_delay_ms after the
\* response to the write has arrived.
C23_RefetchAfterDelay ==
    Refetched =>
        request_result[1].refetch_at - request_result[1].write_at
            >= request_result[1].refetch_delay

(***************************************************************************)
(* action/notifications.py: the webhook endpoints of the subscriptions.    *)
(* The module is not part of the sources at hand: the operations are       *)
(* modelled from section 4.D of the specification and from                 *)
(* tests/unit/cactus_client/action/test_notifications.py.                  *)
(*                                                                         *)
(* endpoints_by_sub_alias is a dict: a sequence of [sub_id, endpoints] in  *)
(* the order the aliases were added. delete_attempts is the history of the *)
(* DELETEs attempted for the context.                                      *)
(***************************************************************************)
\* The endpoints the collector creates in a run.
MaxEndpoints == 2

\* CreateEndpointResponse.fully_qualified_endpoint of the endpoint with this id.
EndpointUri(endpoint_id) == <<"webhook", endpoint_id>>

\* NotificationEndpoint(created_endpoint, subscribed_resource_type,
\* subscribed_resource_id).
NotificationEndpoint(endpoint_id, resource_type, resource_id) ==
    [endpoint_id |-> endpoint_id, uri |-> EndpointUri(endpoint_id),
     subscribed_resource_type |-> resource_type, subscribed_resource_id |-> resource_id]

\* endpoints_by_sub_alias.get(sub_id, []).
endpoints_for(endpoints_by_sub_alias, sub_id) ==
    IF \E i \in 1..Len(endpoints_by_sub_alias) : endpoints_by_sub_alias[i].sub_id = sub_id
    THEN LET i == CHOOSE i \in 1..Len(endpoints_by_sub_alias) :
                      endpoints_by_sub_alias[i].sub_id = sub_id
         IN  endpoints_by_sub_alias[i].endpoints
    ELSE <<>>

\* Every endpoint of the context, alias by alias.
RECURSIVE all_endpoints(_)
all_endpoints(endpoints_by_sub_alias) ==
    IF endpoints_by_sub_alias = <<>> THEN <<>>
    ELSE Head(endpoints_by_sub_alias).endpoints \o all_endpoints(Tail(endpoints_by_sub_alias))

\* endpoints_by_sub_alias[sub_id] = endpoints_by_sub_alias.get(sub_id, []) + [endpoint].
record_endpoint(endpoints_by_sub_alias, sub_id, endpoint) ==
    IF \E i \in 1..Len(endpoints_by_sub_alias) : endpoints_by_sub_alias[i].sub_id = sub_id
    THEN [i \in 1..Len(endpoints_by_sub_alias) |->
              IF endpoints_by_sub_alias[i].sub_id = sub_id
              THEN [endpoints_by_sub_alias[i] EXCEPT !.endpoints = Append(@, endpoint)]
              ELSE endpoints_by_sub_alias[i]]
    ELSE Append(endpoints_by_sub_alias, [sub_id |-> sub_id, endpoints |-> <<endpoint>>])

\* A variant that takes an endpoint for the one cached only when it was
\* created for the same kind of resource too.
cached_endpoints_same_kind(endpoints, resource_type, resource_id) ==
    SelectSeq(endpoints, LAMBDA e : /\ e.subscribed_resource_id = resource_id
                                    /\ e.subscribed_resource_type = resource_type)

\* fetch-webhook: the endpoints of the alias that exist already for the
\* resource-id.
cached_endpoints(endpoints, resource_type, resource_id) ==
    SelectSeq(endpoints, LAMBDA e : e.subscribed_resource_id = resource_id)

\* How the collector answers a request: with a success status, with an
\* error status, or not at all (the connection fails).
CollectorAnswers == {"OK", "INTERNAL_SERVER_ERROR", "connection failure"}

\* The collector after a request that reached it.
collector_request(coll, method, endpoint_id, answer) ==
    IF answer = "connection failure" THEN coll
    ELSE [endpoints |->
              IF answer # "OK" THEN coll.endpoints
              ELSE IF method = "POST" THEN coll.endpoints \cup {endpoint_id}
              ELSE IF method = "DELETE" THEN coll.endpoints \ {endpoint_id}
              ELSE coll.endpoints,
          log |-> Append(coll.log, [method |-> method, endpoint_id |-> endpoint_id,
                                    status |-> answer])]

\* The identifier the collector gives to the next endpoint it creates.
next_endpoint_id(coll) ==
    Cardinality({i \in 1..Len(coll.log) :
                     coll.log[i].method = "POST" /\ coll.log[i].status = "OK"}) + 1

\* The POSTs the collector has seen.
posts_seen(coll) == Cardinality({i \in 1..Len(coll.log) : coll.log[i].method = "POST"})

\* fetch_notification_webhook_for_subscription(step, context, sub_id,
\* resource_type, resource_id): the uri of the endpoint that exists for
\* (sub_id, resource_id), or else of the one created with a POST and recorded
\* under the alias. A failure of the POST raises NotificationException.
fetch_notification_webhook_for_subscription(ctx, coll, sub_id, resource_type, resource_id, answer) ==
    LET cached == cached_endpoints(endpoints_for(ctx.endpoints_by_sub_alias, sub_id),
                                   resource_type, resource_id)
        endpoint == NotificationEndpoint(next_endpoint_id(coll), resource_type, resource_id)
    IN  IF cached # <<>>
        THEN [ctx |-> ctx, coll |-> coll, returned |-> Some(cached[1].uri), raised |-> None]
        ELSE IF answer # "OK"
        THEN [ctx |-> ctx, coll |-> collector_request(coll, "POST", 0, answer),
              returned |-> None, raised |-> Some("NotificationException")]
        ELSE [ctx |-> [ctx EXCEPT !.endpoints_by_sub_alias =
                                      record_endpoint(@, sub_id, endpoint)],
              coll |-> collector_request(coll, "POST", endpoint.endpoint_id, answer),
              returned |-> Some(endpoint.uri), raised |-> None]

\* A variant of the loop of safely-delete-all that gives up at the first
\* DELETE that fails.
RECURSIVE delete_endpoints_until_failure(_, _, _, _)
delete_endpoints_until_failure(endpoints, answers, coll, attempts) ==
    IF endpoints = <<>> THEN [coll |-> coll, attempts |-> attempts]
    ELSE LET e == Head(endpoints)
             answer == answers[e.endpoint_id]
             attempt == [endpoint_id |-> e.endpoint_id, outcome |-> answer,
                         logged |-> answer # "OK"]
         IN  IF answer # "OK"
             THEN [coll |-> collector_request(coll, "DELETE", e.endpoint_id, answer),
                   attempts |-> Append(attempts, attempt)]
             ELSE delete_endpoints_until_failure(
                      Tail(endpoints), answers,
                      collector_request(coll, "DELETE", e.endpoint_id, answer),
                      Append(attempts, attempt))

\* The loop of safely-delete-all: a DELETE is attempted for each endpoint; a
\* DELETE that fails is logged and the loop goes on.
RECURSIVE delete_endpoints(_, _, _, _)
delete_endpoints(endpoints, answers, coll, attempts) ==
    IF endpoints = <<>> THEN [coll |-> coll, attempts |-> attempts]
    ELSE LET e == Head(endpoints)
             answer == answers[e.endpoint_id]
         IN  delete_endpoints(
                 Tail(endpoints), answers,
                 collector_request(coll, "DELETE", e.endpoint_id, answer),
                 Append(attempts, [endpoint_id |-> e.endpoint_id, outcome |-> answer,
                                   logged |-> answer # "OK"]))

\* safely_delete_all_notification_webhooks(notification_context): never
\* raises.
safely_delete_all_notification_webhooks(ctx, coll, answers) ==
    LET r == delete_endpoints(all_endpoints(ctx.endpoints_by_sub_alias), answers, coll,
                              ctx.delete_attempts)
    IN  [ctx |-> [ctx EXCEPT !.delete_attempts = r.attempts], coll |-> r.coll,
         returned |-> None, raised |-> None]

\* The identifiers of the endpoints of a context.
EndpointIds(ctx) ==
    {all_endpoints(ctx.endpoints_by_sub_alias)[i].endpoint_id :
         i \in 1..Len(all_endpoints(ctx.endpoints_by_sub_alias))}

\* The identifiers of the resources subscribed to.
SubscribedIds == {from_parent(None, href) : href \in Hrefs}

\* The endpoints a client holds for (alias, resource-id).
EndpointsOf(client, sub_id, resource_id) ==
    SelectSeq(endpoints_for(notification_contexts[client].endpoints_by_sub_alias, sub_id),
              LAMBDA e : e.subscribed_resource_id = resource_id)

\* A step of a client fetches the webhook of a subscription.
FetchWebhook(client, sub_id, resource_type, resource_id, answer) ==
    /\ notification_contexts[client].delete_attempts = <<>>
    /\ \/ posts_seen(collector) < MaxEndpoints
       \/ EndpointsOf(client, sub_id, resource_id) # <<>>
    /\ LET ctx == notification_contexts[client]
           r == fetch_notification_webhook_for_subscription(
                    ctx, collector, sub_id, resource_type, resource_id, answer)
           cached == EndpointsOf(client, sub_id, resource_id)
       IN  /\ notification_contexts' = [notification_contexts EXCEPT ![client] = r.ctx]
           /\ collector' = r.coll
           /\ request_result' =
                  Some([call |-> "fetch", client |-> client, sub_id |-> sub_id,
                        resource_id |-> resource_id,
                        existing |-> IF cached = <<>> THEN None ELSE Some(cached[1].uri),
                        posts |-> Len(r.coll.log) - Len(collector.log),
                        returned |-> r.returned, raised |-> r.raised])
    /\ UNCHANGED <<runVars, trackerVars, evaluation, storeVars, active_request, server_log,
                   der_controls, annotations, entrypoint, run_id_file, increments,
                   discovered_resources>>

\* The endpoints of a client are deleted.
SafelyDeleteAll(client, answers) ==
    /\ notification_contexts[client].delete_attempts = <<>>
    /\ notification_contexts[client].endpoints_by_sub_alias # <<>>
    /\ \A id \in 1..MaxEndpoints :
           id \notin EndpointIds(notification_contexts[client]) => answers[id] = "OK"
    /\ LET ctx == notification_contexts[client]
           r == safely_delete_all_notification_webhooks(ctx, collector, answers)
       IN  /\ notification_contexts' = [notification_contexts EXCEPT ![client] = r.ctx]
           /\ collector' = r.coll
           /\ request_result' =
                  Some([call |-> "safely_delete_all", client |-> client,
                        answers |-> answers, returned |-> r.returned, raised |-> r.raised])
    /\ UNCHANGED <<runVars, trackerVars, evaluation, storeVars, active_request, server_log,
                   der_controls, annotations, entrypoint, run_id_file, increments,
                   discovered_resources>>

NextNotify ==
    \/ \E client \in Clients, sub_id \in SubAliases, resource_type \in Kinds,
          resource_id \in SubscribedIds, answer \in CollectorAnswers :
           FetchWebhook(client, sub_id, resource_type, resource_id, answer)
    \/ \E client \in Clients, answers \in [1..MaxEndpoints -> CollectorAnswers] :
           SafelyDeleteAll(client, answers)

SpecNotify == InitIdle /\ [][NextNotify]_vars

\* The latest call was safely-delete-all for this client.
DeletedAll(client) ==
    /\ request_result # None
    /\ request_result[1].call = "safely_delete_all"
    /\ request_result[1].client = client

\* C24: safely-delete-all attempts a DELETE for every endpoint of the
\* notifications-context and never raises: a DELETE that fails with an error
\* status or a connection failure is logged and the remaining endpoints are
\* still attempted.
C24_SafelyDeleteAllAttemptsAll ==
    \A client \in Clients :
        DeletedAll(client) =>
            LET ctx == notification_contexts[client]
                endpoints == all_endpoints(ctx.endpoints_by_sub_alias)
            IN  /\ request_result[1].raised = None
                /\ Len(ctx.delete_attempts) = Len(endpoints)
                /\ \A i \in 1..Len(endpoints) :
                       /\ ctx.delete_attempts[i].endpoint_id = endpoints[i].endpoint_id
                       /\ ctx.delete_attempts[i].outcome
                              = request_result[1].answers[endpoints[i].endpoint_id]
                       /\ ctx.delete_attempts[i].logged
                              = (ctx.delete_attempts[i].outcome # "OK")

\* The DELETE of the first endpoint of a context failed, and the second was
\* still attempted and deleted.
C24_Witness ==
    \E client \in Clients :
        /\ DeletedAll(client)
        /\ Len(notification_contexts[client].delete_attempts) = 2
        /\ notification_contexts[client].delete_attempts[1].outcome # "OK"
        /\ notification_contexts[client].delete_attempts[2].outcome = "OK"
        /\ request_result[1].raised = None

\* The latest call was fetch-webhook.
Fetched ==
    /\ request_result # None
    /\ request_result[1].call = "fetch"

\* C26: fetch-webhook creates an endpoint, with one POST, only the first
\* time it is called for an (alias, resource-id); a later call returns the
\* same uri without a POST, so that a context holds at most one endpoint per
\* (alias, resource-id).
C26_OneEndpointPerAliasAndResource ==
    /\ \A client \in Clients, sub_id \in SubAliases, resource_id \in SubscribedIds :
           Len(EndpointsOf(client, sub_id, resource_id)) <= 1
    /\ Fetched =>
           LET r == request_result[1]
           IN  /\ r.existing # None =>
                      r.posts = 0 /\ r.raised = None /\ r.returned = r.existing
               /\ r.existing = None => r.posts <= 1
               /\ (r.existing = None /\ r.raised = None) =>
                      /\ r.posts = 1
                      /\ \E e \in EndpointIds(notification_contexts[r.client]) :
                             r.returned = Some(EndpointUri(e))

\* A second call for the same (alias, resource-id) has returned the uri of
\* the endpoint created by the first, and the collector has seen one POST.
C26_Witness ==
    /\ Fetched
    /\ request_result[1].existing # None
    /\ request_result[1].returned = request_result[1].existing
    /\ Len(collector.log) = 1
    /\ collector.log[1].method = "POST"

(***************************************************************************)
(* execution/run.py: run_entrypoint, from the moment the execution context *)
(* is built. entrypoint.pc is the line run_entrypoint is waiting at:       *)
(*   "wait"       line 81, asyncio.wait(tasks, FIRST_COMPLETED)            *)
(*   "await_tui"  line 89, the await of the cancelled TUI task             *)
(*   "report"     lines 106-123, the results and the output files          *)
(*   "exit"       the exit of `async with build_execution_context(...)`    *)
(*   "finished"   run_entrypoint has returned or raised                    *)
(* The execute task is represented by the webhooks its steps fetch.        *)
(* execution/build.py is not part of the sources at hand: what the exit of *)
(* the context does is modelled from section 5 of the specification.       *)
(***************************************************************************)
\* Lines 27-77: the context is built, the output directory and the logs are
\* set up and the tasks are created.
RunEntrypoint(headless) ==
    /\ entrypoint = None
    /\ entrypoint' = Some([pc |-> "wait", headless |-> headless,
                           execute_task |-> "running",
                           tui_task |-> IF headless THEN "none" ELSE "running",
                           results |-> None, cancelled |-> FALSE, raised |-> None,
                           cleaned |-> {}])
    /\ UNCHANGED <<runVars, trackerVars, evaluation, storeVars, active_request,
                   request_result, server_log, der_controls, annotations,
                   notification_contexts, collector, run_id_file, increments,
                   discovered_resources>>

\* The execute task is running a step.
Executing ==
    /\ entrypoint # None
    /\ entrypoint[1].pc = "wait"
    /\ entrypoint[1].execute_task = "running"

\* A step of the execute task fetches a webhook.
EntryFetchWebhook(client, sub_id, resource_type, resource_id, answer) ==
    /\ Executing
    /\ FetchWebhook(client, sub_id, resource_type, resource_id, answer)

\* Lines 81-91, headless or not: the execute task completes first. The TUI
\* task, when there is one, is cancelled and awaited.
ExecuteCompletes ==
    /\ Executing
    /\ entrypoint' =
           Some(IF entrypoint[1].headless
                THEN [entrypoint[1] EXCEPT !.execute_task = "done",
                                           !.results = Some("completed"),
                                           !.pc = "report"]
                ELSE [entrypoint[1] EXCEPT !.execute_task = "done",
                                           !.tui_task = "cancelling",
                                           !.pc = "await_tui"])
    /\ UNCHANGED <<runVars, trackerVars, evaluation, storeVars, active_request,
                   request_result, server_log, der_controls, annotations,
                   notification_contexts, collector, run_id_file, increments,
                   discovered_resources>>

\* Lines 89-91: run_tui catches the CancelledError and returns
\* (tui.py:340-342); the results are those of the execute task.
TuiReturns ==
    /\ entrypoint # None
    /\ entrypoint[1].pc = "await_tui"
    /\ entrypoint' = Some([entrypoint[1] EXCEPT !.tui_task = "done",
                                                !.results = Some("completed"),
                                                !.pc = "report"])
    /\ UNCHANGED <<runVars, trackerVars, evaluation, storeVars, active_request,
                   request_result, server_log, der_controls, annotations,
                   notification_contexts, collector, run_id_file, increments,
                   discovered_resources>>

\* Lines 82-86: the TUI task completes first; CactusClientException leaves
\* the body of the `async with`. The execute task is not awaited any more.
TuiExits ==
    /\ Executing
    /\ entrypoint[1].tui_task = "running"
    /\ entrypoint' = Some([entrypoint[1] EXCEPT !.tui_task = "done",
                                                !.execute_task = "abandoned",
                                                !.raised = Some("CactusClientException"),
                                                !.pc = "exit"])
    /\ UNCHANGED <<runVars, trackerVars, evaluation, storeVars, active_request,
                   request_result, server_log, der_controls, annotations,
                   notification_contexts, collector, run_id_file, increments,
                   discovered_resources>>

\* Lines 92-104: run_entrypoint after the CancelledError raised at one of
\* its awaits: the run counts as not completed, and every task that is not
\* done is cancelled and awaited.
cancelled_entrypoint(entry) ==
    [entry EXCEPT !.cancelled = TRUE,
                  !.results = Some("not completed"),
                  !.execute_task = IF @ = "running" THEN "cancelled" ELSE @,
                  !.tui_task = IF @ = "none" THEN @ ELSE "done",
                  !.pc = "report"]

\* The run is cancelled while run_entrypoint waits at line 81 or line 89,
\* the execute task being between two requests.
Cancel ==
    /\ entrypoint # None
    /\ entrypoint[1].pc \in {"wait", "await_tui"}
    /\ entrypoint' = Some(cancelled_entrypoint(entrypoint[1]))
    /\ UNCHANGED <<runVars, trackerVars, evaluation, storeVars, active_request,
                   request_result, server_log, der_controls, annotations,
                   notification_contexts, collector, run_id_file, increments,
                   discovered_resources>>

\* The run is cancelled while the execute task awaits the answer to the POST
\* of a fetch-webhook: the collector has created the endpoint, and the task
\* is cancelled before it records it.
CancelDuringFetch(client, sub_id, resource_type, resource_id) ==
    /\ Executing
    /\ EndpointsOf(client, sub_id, resource_id) = <<>>
    /\ posts_seen(collector) < MaxEndpoints
    /\ collector' = collector_request(collector, "POST", next_endpoint_id(collector), "OK")
    /\ entrypoint' = Some(cancelled_entrypoint(entrypoint[1]))
    /\ UNCHANGED <<runVars, trackerVars, evaluation, storeVars, active_request,
                   request_result, server_log, der_controls, annotations,
                   notification_contexts, run_id_file, increments,
                   discovered_resources>>

\* Lines 106-123: the results are rendered and written; nothing is awaited.
Report ==
    /\ entrypoint # None
    /\ entrypoint[1].pc = "report"
    /\ entrypoint' = Some([entrypoint[1] EXCEPT !.pc = "exit"])
    /\ UNCHANGED <<runVars, trackerVars, evaluation, storeVars, active_request,
                   request_result, server_log, der_controls, annotations,
                   notification_contexts, collector, run_id_file, increments,
                   discovered_resources>>

\* A variant of the cleanup that is made only for a run that completed.
contexts_cleaned_if_completed(entry) ==
    IF entry.results = Some("completed") THEN Clients ELSE {}

\* The notifications-contexts safely-delete-all is invoked on when the
\* execution context is left: all of them, however the body was left.
contexts_cleaned(entry) == Clients

\* safely-delete-all for the clients of the sequence, one after the other.
RECURSIVE cleanup(_, _, _, _, _)
cleanup(clients, cleaned, contexts, coll, answers) ==
    IF clients = <<>> THEN [contexts |-> contexts, coll |-> coll]
    ELSE IF Head(clients) \notin cleaned
    THEN cleanup(Tail(clients), cleaned, contexts, coll, answers)
    ELSE LET r == safely_delete_all_notification_webhooks(
                      contexts[Head(clients)], coll, answers)
         IN  cleanup(Tail(clients), cleaned,
                     [contexts EXCEPT ![Head(clients)] = r.ctx], r.coll, answers)

\* The exit of `async with build_execution_context(...)`, line 27: the
\* cleanup of the context, after which run_entrypoint returns or raises.
ExitContext(answers) ==
    /\ entrypoint # None
    /\ entrypoint[1].pc = "exit"
    /\ \A id \in 1..MaxEndpoints :
           (\A client \in Clients : id \notin EndpointIds(notification_contexts[client]))
               => answers[id] = "OK"
    /\ LET cleaned == contexts_cleaned(entrypoint[1])
           r == cleanup(ClientOrder, cleaned, notification_contexts, collector, answers)
       IN  /\ notification_contexts' = r.contexts
           /\ collector' = r.coll
           /\ entrypoint' = Some([entrypoint[1] EXCEPT !.cleaned = cleaned,
                                                       !.pc = "finished"])
    /\ UNCHANGED <<runVars, trackerVars, evaluation, storeVars, active_request,
                   request_result, server_log, der_controls, annotations,
                   run_id_file, increments,
                   discovered_resources>>

NextEntry ==
    \/ \E headless \in BOOLEAN : RunEntrypoint(headless)
    \/ \E client \in Clients, sub_id \in SubAliases, resource_type \in {"EndDevice"},
          resource_id \in SubscribedIds, answer \in CollectorAnswers :
           EntryFetchWebhook(client, sub_id, resource_type, resource_id, answer)
    \/ ExecuteCompletes
    \/ TuiReturns
    \/ TuiExits
    \/ Cancel
    \/ \E client \in Clients, sub_id \in SubAliases, resource_type \in {"EndDevice"},
          resource_id \in SubscribedIds :
           CancelDuringFetch(client, sub_id, resource_type, resource_id)
    \/ Report
    \/ \E answers \in [1..MaxEndpoints -> CollectorAnswers] : ExitContext(answers)

SpecEntry == InitIdle /\ [][NextEntry]_vars

\* The run was cancelled and run_entrypoint has finished.
FinishedAfterCancel ==
    /\ entrypoint # None
    /\ entrypoint[1].pc = "finished"
    /\ entrypoint[1].cancelled

\* The endpoints the collector has created.
CreatedEndpoints ==
    {collector.log[i].endpoint_id :
         i \in {j \in 1..Len(collector.log) :
                    collector.log[j].method = "POST" /\ collector.log[j].status = "OK"}}

\* The endpoints a DELETE was attempted for.
DeleteAttempted ==
    UNION {{notification_contexts[client].delete_attempts[i].endpoint_id :
                i \in 1..Len(notification_contexts[client].delete_attempts)} :
           client \in Clients}

VALID_XSI_TYPES == {"DERCapability", "DERStatus"}

\* Notification.resource: absent, or a resource with its xsi:type.
NotificationResources ==
    {None}
        \cup {Some([type |-> t, resource |-> [href |-> Some("/a"), body |-> "v1"]]) :
                  t \in {None, Some("Unknown")}}
        \cup {Some([type |-> Some("DERCapability"), resource |-> r]) : r \in Resources}

\* NotificationEndpoint: the kind and the identifier subscribed to, a
\* top-level resource or a child of "/a".
Sources ==
    [subscribed_resource_type : Kinds, subscribed_resource_id : {<<"/a">>, <<"/a", "/a">>}]

\* The identifiers that can be stored, in a fixed order.
IdOrder == <<<<"/a">>, <<"/b">>, <<"/a", "/a">>, <<"/b", "/a">>>>

\* add_tag(AnnotationNamespace.SUBSCRIPTION_RECEIVED, sub_id) on the
\* annotations of the identifier.
add_subscription_tag(ann, id, sub_id) ==
    [i \in 1..Len(IdOrder) |->
         (IF i <= Len(ann) THEN ann[i] ELSE {})
             \cup (IF IdOrder[i] = id THEN {sub_id} ELSE {})]

\* handle_notification_resource(step, context, notification, sub_id, source),
\* lines 187-237. The kinds of the model are not lists (lines 222-237 are for
\* list kinds).
handle_notification_resource(rs, ids, ann, resource, sub_id, source) ==
    IF resource = None
    THEN [store |-> StoreOutcome(rs, ids, Some("CactusClientException"), None),
          annotations |-> ann]
    ELSE IF resource[1].type = None
    THEN [store |-> StoreOutcome(rs, ids, Some("CactusClientException"), None),
          annotations |-> ann]
    ELSE IF resource[1].type[1] \notin VALID_XSI_TYPES
    THEN [store |-> StoreOutcome(rs, ids, Some("CactusClientException"), None),
          annotations |-> ann]
    ELSE LET u == upsert_resource(rs, ids, source.subscribed_resource_type,
                                  parent_id(source.subscribed_resource_id),
                                  resource[1].resource)
         IN  IF u.raised # None THEN [store |-> u, annotations |-> ann]
             ELSE [store |-> [u EXCEPT !.returned = None],
                   annotations |-> add_subscription_tag(ann, u.returned[1].id, sub_id)]

\* The loop of action_forget, lines 15-16: clear_resource for each kind named.
RECURSIVE forget_loop(_, _, _)
forget_loop(rs, ids, resource_names) ==
    IF resource_names = <<>> THEN StoreOutcome(rs, ids, None, Some("done"))
    ELSE LET c == clear_resource(rs, ids, Head(resource_names))
         IN  IF c.raised # None THEN c
             ELSE forget_loop(c.resource_store, c.id_store, Tail(resource_names))

\* action_forget(resolved_parameters, step, context)
action_forget(rs, ids, resource_names) == forget_loop(rs, ids, resource_names)

\* The `resources` parameter of a forget step.
ForgetParameters == {<<k>> : k \in Kinds} \cup {<<"EndDevice", "DER">>}

\* A notification collected for a subscription is injected into the store.
InjectNotification(resource, sub_id, source) ==
    /\ LET r == handle_notification_resource(resource_store, id_store, annotations,
                                             resource, sub_id, source)
       IN  /\ stored_count(r.store.resource_store, Kinds) <= MaxStored
           /\ resource_store' = r.store.resource_store
           /\ id_store' = r.store.id_store
           /\ annotations' = r.annotations
           /\ store_result' = Some([op |-> "inject", type |-> None, id |-> None,
                                    raised |-> r.store.raised, returned |-> None])
    /\ UNCHANGED <<runVars, trackerVars, evaluation, active_request, request_result,
                   server_log, der_controls, hostVars>>

\* A forget step is executed.
Forget(resource_names) ==
    /\ LET r == action_forget(resource_store, id_store, resource_names)
       IN  /\ resource_store' = r.resource_store
           /\ id_store' = r.id_store
           /\ store_result' = Some([op |-> "forget", type |-> Some(resource_names), id |-> None,
                                    raised |-> r.raised, returned |-> r.returned])
    /\ UNCHANGED <<runVars, trackerVars, evaluation, actionVars>>

NextInject ==
    \/ \E resource \in NotificationResources, sub_id \in {"sub1"}, source \in Sources :
           InjectNotification(resource, sub_id, source)
    \/ \E resource_names \in ForgetParameters : Forget(resource_names)

SpecInject == InitIdle /\ [][NextInject]_vars

\* The identifiers of the resource_names injected from notifications so far.
InjectedIds == {IdOrder[i] : i \in {j \in 1..Len(annotations) : annotations[j] # {}}}

\* What an action or a check that reads the store finds for an identifier:
\* the resource, by its identifier and among those of its kind.
Retrievable(ids, rs, id) ==
    /\ get_for_id(ids, id) # None
    /\ \E i \in 1..Len(get_for_type(rs, get_for_id(ids, id)[1].resource_type)) :
           get_for_type(rs, get_for_id(ids, id)[1].resource_type)[i]
               = get_for_id(ids, id)[1]

NumRuns == 3

\* RunOutputManager.__init__, line 117: a run starts to increment the counter.
StartIncrement ==
    /\ Len(increments) < NumRuns
    /\ increments' = Append(increments, [pc |-> "exists", current_value |-> None,
                                         run_id |-> None])
    /\ UNCHANGED <<runVars, trackerVars, evaluation, storeVars, active_request,
                   request_result, server_log, der_controls, annotations,
                   notification_contexts, collector, entrypoint, run_id_file,
                   discovered_resources>>

\* The processes that have started.
Started(p) == p \in 1..Len(increments)

\* What the steps of increment_run_id_counter leave alone.
IncrementFrame ==
    UNCHANGED <<runVars, trackerVars, evaluation, storeVars, active_request,
                request_result, server_log, der_controls, annotations,
                notification_contexts, collector, entrypoint, discovered_resources>>

\* Line 73: os.path.exists(run_id_path).
CheckExists(p) ==
    /\ Started(p)
    /\ increments[p].pc = "exists"
    /\ increments' = [increments EXCEPT ![p].pc =
                          IF run_id_file.content = None THEN "create" ELSE "open"]
    /\ UNCHANGED run_id_file
    /\ IncrementFrame

\* Line 74: open(run_id_path, "w") creates the file, or empties it.
CreateFile(p) ==
    /\ Started(p)
    /\ increments[p].pc = "create"
    /\ run_id_file' = [run_id_file EXCEPT !.content = Some(0)]
    /\ increments' = [increments EXCEPT ![p].pc = "write_one"]
    /\ IncrementFrame

\* Lines 75-76: "1" is written (and flushed as the file is closed) and 1 is
\* returned.
WriteOne(p) ==
    /\ Started(p)
    /\ increments[p].pc = "write_one"
    /\ run_id_file' = [run_id_file EXCEPT !.content = Some(1)]
    /\ increments' = [increments EXCEPT ![p].pc = "done", ![p].run_id = Some(1)]
    /\ IncrementFrame

\* Lines 79-81: open(run_id_path, "r+") and lock_file(f), which waits while
\* another process holds the lock.
LockFile(p) ==
    /\ Started(p)
    /\ increments[p].pc = "open"
    /\ run_id_file.locked_by = None
    /\ run_id_file' = [run_id_file EXCEPT !.locked_by = Some(p)]
    /\ increments' = [increments EXCEPT ![p].pc = "read"]
    /\ IncrementFrame

\* Lines 83-91: the content is read; what is not an integer counts as 0.
ReadValue(p) ==
    /\ Started(p)
    /\ increments[p].pc = "read"
    /\ increments' = [increments EXCEPT ![p].pc = "truncate",
                                        ![p].current_value = run_id_file.content]
    /\ UNCHANGED run_id_file
    /\ IncrementFrame

\* Lines 93-94: f.seek(0) and f.truncate().
TruncateFile(p) ==
    /\ Started(p)
    /\ increments[p].pc = "truncate"
    /\ run_id_file' = [run_id_file EXCEPT !.content = Some(0)]
    /\ increments' = [increments EXCEPT ![p].pc = "write"]
    /\ IncrementFrame

\* Lines 95-96: the new value is written and flushed.
WriteValue(p) ==
    /\ Started(p)
    /\ increments[p].pc = "write"
    /\ run_id_file' = [run_id_file EXCEPT !.content =
                           Some(increments[p].current_value[1] + 1)]
    /\ increments' = [increments EXCEPT ![p].pc = "unlock"]
    /\ IncrementFrame

\* Lines 98-101: unlock_file(f), and the new value is returned.
UnlockFile(p) ==
    /\ Started(p)
    /\ increments[p].pc = "unlock"
    /\ run_id_file' = [run_id_file EXCEPT !.locked_by = None]
    /\ increments' = [increments EXCEPT ![p].pc = "done",
                                        ![p].run_id =
                                            Some(increments[p].current_value[1] + 1)]
    /\ IncrementFrame

NextRunId ==
    \/ StartIncrement
    \/ \E p \in 1..NumRuns : CheckExists(p)
    \/ \E p \in 1..NumRuns : CreateFile(p)
    \/ \E p \in 1..NumRuns : WriteOne(p)
    \/ \E p \in 1..NumRuns : LockFile(p)
    \/ \E p \in 1..NumRuns : ReadValue(p)
    \/ \E p \in 1..NumRuns : TruncateFile(p)
    \/ \E p \in 1..NumRuns : WriteValue(p)
    \/ \E p \in 1..NumRuns : UnlockFile(p)

SpecRunId == InitIdle /\ [][NextRunId]_vars

\* The increments that have returned.
Returned == {p \in 1..Len(increments) : increments[p].pc = "done"}

\* C28: the .runid counter is incremented atomically: concurrent runs in one
\* base output directory obtain different run ids, and the stored value has
\* grown by one per increment, also when the file does not exist at first.
C28_RunIdsDistinct ==
    /\ \A p \in Returned, q \in Returned :
           p # q => increments[p].run_id # increments[q].run_id
    /\ Returned = 1..Len(increments) /\ Returned # {}
           => run_id_file.content = Some(Cardinality(Returned))

\* While a process is between its lock and its unlock, no other process is.
LockIsExclusive ==
    \A p \in 1..Len(increments), q \in 1..Len(increments) :
        (/\ p # q
         /\ increments[p].pc \in {"read", "truncate", "write", "unlock"})
            => increments[q].pc \notin {"read", "truncate", "write", "unlock"}

(***************************************************************************)
(* Claims about upsert_resource and delete_resource, under SpecStore.      *)
(***************************************************************************)
\* The step is a call of this operation of the store, with an identifier.
StoreStep(op) ==
    /\ store_result' # None
    /\ store_result'[1].op = op
    /\ store_result'[1].id # None

\* The resource is at the same position of the list of its kind before and
\* after, nothing else of the list having changed.
ReplacedInPlace(old, new) ==
    LET before == get_for_type(resource_store, old.resource_type)
        after == get_for_type(resource_store', old.resource_type)
    IN  /\ Len(after) = Len(before)
        /\ \E i \in 1..Len(before) :
               /\ before[i] = old
               /\ after = [before EXCEPT ![i] = new]

\* C29: upsert of a payload whose identifier is already stored replaces the
\* stored resource at the same position of the list of its kind, the number
\* of stored resources does not change and get-by-id returns the new
\* payload; upsert of a new identifier adds exactly one resource.
C29_UpsertReplacesInPlace ==
    [][StoreStep("upsert") =>
           LET id == store_result'[1].id[1]
               new == store_result'[1].returned
           IN  /\ store_result'[1].raised = None
               /\ get_for_id(id_store', id) = new
               /\ IF get_for_id(id_store, id) # None
                  THEN /\ ReplacedInPlace(get_for_id(id_store, id)[1], new[1])
                       /\ stored_count(resource_store', Kinds)
                              = stored_count(resource_store, Kinds)
                  ELSE stored_count(resource_store', Kinds)
                           = stored_count(resource_store, Kinds) + 1]_vars

\* What holds of upsert_resource: when the two indices agree and the
\* identifier is not stored under another kind, the stored resource is
\* replaced in place, or one resource is added for a new identifier.
UpsertOfSameKindReplacesInPlace ==
    [][(/\ StoreStep("upsert")
        /\ C10_IndicesConsistent
        /\ LET old == get_for_id(id_store, store_result'[1].id[1])
           IN  old # None => old[1].resource_type = store_result'[1].type[1])
           =>
           LET id == store_result'[1].id[1]
               new == store_result'[1].returned
           IN  /\ store_result'[1].raised = None
               /\ get_for_id(id_store', id) = new
               /\ IF get_for_id(id_store, id) # None
                  THEN /\ ReplacedInPlace(get_for_id(id_store, id)[1], new[1])
                       /\ stored_count(resource_store', Kinds)
                              = stored_count(resource_store, Kinds)
                  ELSE stored_count(resource_store', Kinds)
                           = stored_count(resource_store, Kinds) + 1]_vars

\* C30: delete(id) removes the resource stored for the identifier from both
\* indices and returns it, or returns none and changes nothing when the
\* identifier is not stored; every other stored resource, the descendants of
\* the deleted one included, stays in the store.
C30_DeleteRemovesExactlyOne ==
    [][StoreStep("delete") =>
           LET id == store_result'[1].id[1]
               old == get_for_id(id_store, id)
           IN  /\ store_result'[1].raised = None
               /\ store_result'[1].returned = old
               /\ IF old = None
                  THEN /\ id_store' = id_store
                       /\ resource_store' = resource_store
                  ELSE /\ id_store' = [id_store EXCEPT ![id] = None]
                       /\ \A k \in Kinds \ {old[1].resource_type} :
                              resource_store'[k] = resource_store[k]
                       /\ LET before == get_for_type(resource_store, old[1].resource_type)
                              after == get_for_type(resource_store', old[1].resource_type)
                          IN  \E i \in 1..Len(before) :
                                  /\ before[i] = old[1]
                                  /\ after = SubSeq(before, 1, i - 1)
                                                 \o SubSeq(before, i + 1, Len(before))]_vars

\* A resource was deleted and one of its descendants is still stored, under
\* its identifier and in the list of its kind.
C30_Witness ==
    /\ store_result # None
    /\ store_result[1].op = "delete"
    /\ store_result[1].returned # None
    /\ get_for_id(id_store, store_result[1].id[1]) = None
    /\ \E id \in StoredIds :
           /\ is_descendent_of(id, store_result[1].id[1])
           /\ Retrievable(id_store, resource_store, id)

(***************************************************************************)
(* StoredResourceId.is_descendent_of and is_ancestor_of, applied to the    *)
(* identifiers from_parent builds: chains of one to MaxDepth hrefs.        *)
(***************************************************************************)
\* The longest chain of hrefs of an identifier.
MaxDepth == 3

\* The identifiers from_parent gives with chains of exactly `depth` hrefs.
RECURSIVE IdsOfDepth(_)
IdsOfDepth(depth) ==
    IF depth = 1 THEN {from_parent(None, h) : h \in Hrefs}
    ELSE {from_parent(Some(p), h) : p \in IdsOfDepth(depth - 1), h \in Hrefs}

AllIds == UNION {IdsOfDepth(depth) : depth \in 1..MaxDepth}

\* Two identifiers are compared, each way.
Relate(a, b) ==
    /\ store_result' = Some([op |-> "relate", type |-> None, id |-> Some(a),
                             other |-> b, raised |-> None, returned |-> None,
                             is_ancestor_of |-> is_ancestor_of(a, b),
                             is_descendent_of |-> is_descendent_of(b, a),
                             own_ancestor |-> is_ancestor_of(a, a),
                             own_descendent |-> is_descendent_of(a, a)])
    /\ UNCHANGED <<runVars, trackerVars, evaluation, resource_store, id_store, actionVars>>

NextIds == \E a \in AllIds, b \in AllIds : Relate(a, b)

SpecIds == InitIdle /\ [][NextIds]_vars

\* The latest call compared two identifiers.
Related ==
    /\ store_result # None
    /\ store_result[1].op = "relate"

\* The tuple ends with the suffix.
EndsWith(hrefs, suffix) ==
    /\ Len(suffix) <= Len(hrefs)
    /\ \A i \in 1..Len(suffix) : hrefs[Len(hrefs) - Len(suffix) + i] = suffix[i]

\* C31: A.is_ancestor_of(B) holds exactly when B.is_descendent_of(A) holds,
\* and both exactly when A differs from B and the hrefs of B end with the
\* hrefs of A; no identifier is its own ancestor or descendant.
C31_AncestorIffDescendent ==
    Related =>
        LET a == store_result[1].id[1]
            b == store_result[1].other
        IN  /\ store_result[1].is_ancestor_of = store_result[1].is_descendent_of
            /\ store_result[1].is_descendent_of = (a # b /\ EndsWith(b, a))
            /\ ~store_result[1].own_ancestor
            /\ ~store_result[1].own_descendent

\* A top-level identifier was compared with one two levels below it: it is
\* its ancestor, and the other its descendant.
C31_Witness ==
    /\ Related
    /\ Len(store_result[1].id[1]) = 1
    /\ Len(store_result[1].other) = 3
    /\ store_result[1].is_ancestor_of
    /\ store_result[1].is_descendent_of

(***************************************************************************)
(* The validation of the stored resources at the end of the run            *)
(* (execute.py, lines 15-23 and 94-97; test_validate_all_resources). The   *)
(* action of every step stores one resource in the store of one client.    *)
(***************************************************************************)
\* The resources the actions store: server-minted DERControls and the
\* MirrorUsagePoints of the client, with the PEN their mRID ends with.
DiscoveredResources ==
    [resource_type : {"DERControl", "MirrorUsagePoint"}, pen : {ServerPen, OtherPen}]

\* The index of the last resource of the type in the list, 0 when there is none.
last_of_type(srs, type) ==
    IF \E i \in 1..Len(srs) : srs[i].resource_type = type
    THEN CHOOSE i \in 1..Len(srs) :
             /\ srs[i].resource_type = type
             /\ \A j \in (i + 1)..Len(srs) : srs[j].resource_type # type
    ELSE Len(srs)

\* ResourceStore.resources() after an append: the lists of the types in the
\* order the types were first stored, the new resource last in its list.
resources_after_append(srs, sr) ==
    LET i == last_of_type(srs, sr.resource_type)
    IN  SubSeq(srs, 1, i) \o <<sr>> \o SubSeq(srs, i + 1, Len(srs))

\* What the actions of this run return: done, failed, or a repeat at once.
DiscoverResults == {ActionResult_done, ActionResult_failed, ActionResult(TRUE, TRUE, None)}

\* Lines 50-97: the action stores a resource for a client and returns; when the
\* loop ends with this step, the stores are validated.
DiscoverCompleted(action_result, check_result, alias, sr) ==
    /\ WithinBounds
    /\ StepReturned(0, action_result, check_result, <<>>)
    /\ discovered_resources' =
           [discovered_resources EXCEPT ![alias] = resources_after_append(@, sr)]
    /\ warnings' = IF pc' = "done"
                   THEN validate_all_resources(warnings, discovered_resources', ServerPen)
                   ELSE warnings
    /\ UNCHANGED <<responses, storeVars, active_request, request_result, server_log,
                   der_controls, annotations, notification_contexts, collector,
                   entrypoint, run_id_file, increments>>

NextValidate ==
    \/ Finish
    \/ \E d \in ActionTicks : RunActionException(d)
    \/ \E d \in ActionTicks : RunCheckException(d)
    \/ \E ar \in DiscoverResults, cr \in CheckResults, alias \in Clients,
          sr \in DiscoveredResources : DiscoverCompleted(ar, cr, alias, sr)

SpecValidate == InitIdle /\ [][NextValidate]_vars

\* The stored resources the warnings are about, in the order of the warnings.
WarnedResources ==
    LET ws == SelectSeq(warnings, LAMBDA w : w.stored_resource # None)
    IN  [i \in 1..Len(ws) |-> ws[i].stored_resource[1]]

\* The invalid resources of the stores of the clients from the k-th on.
RECURSIVE InvalidStored(_)
InvalidStored(k) ==
    IF k > Len(ClientOrder) THEN <<>>
    ELSE SelectSeq(discovered_resources[ClientOrder[k]],
                   LAMBDA sr : sr.resource_type = "DERControl" /\ sr.pen # ServerPen)
         \o InvalidStored(k + 1)

\* C32: while the loop executes steps no stored resource has a warning; once
\* the loop has ended, by a drained queue or by a failed step, the warnings
\* hold exactly one entry per invalid stored resource of every client.
C32_ValidatedOnceAtTheEnd ==
    /\ pc = "loop" => WarnedResources = <<>>
    /\ (pc = "done" /\ completed = Some(TRUE)) => WarnedResources = InvalidStored(1)

C32_Witness ==
    /\ pc = "done"
    /\ completed = Some(TRUE)
    /\ last.kind = "final"
    /\ \A c \in Clients : \E i \in 1..Len(discovered_resources[c]) :
           is_invalid_resource(discovered_resources[c][i], ServerPen) # None
    /\ Len(WarnedResources) = 2

(***************************************************************************)
(* action/mup.py: action_insert_readings, executed by the loop. Every step *)
(* of the run inserts readings for the MirrorUsagePoint with alias "mup1"  *)
(* of client1; step 1 with any values, the other steps with one constant.  *)
(* Ticks are counted from the start of the minute the context was created  *)
(* in, so that created_at.replace(second=0, microsecond=0) is tick 0.      *)
(***************************************************************************)
MaxReadings == 2

ReadingTypes == {"ActivePowerAverage", "ReactivePowerAverage"}

\* The list base + 1, ..., base + n.
ListOf(n, base) == [k \in 1..n |-> base + k]

\* The values parameter: per reading type a list or a constant.
ReadingValues ==
    {[rt \in {"ActivePowerAverage"} |-> IntVal(5)]}
    \cup {[rt \in {"ActivePowerAverage"} |-> ListVal(ListOf(n, 10))] : n \in 0..MaxReadings}
    \cup {[rt \in ReadingTypes |->
              IF rt = "ActivePowerAverage" THEN ListVal(ListOf(n, 10))
              ELSE ListVal(ListOf(n, 20))] : n \in 1..MaxReadings}
    \cup {[rt \in ReadingTypes |->
              IF rt = "ActivePowerAverage" THEN ListVal(ListOf(n, 10))
              ELSE IntVal(7)] : n \in 1..MaxReadings}
    \cup {[rt \in ReadingTypes |->
              IF rt = "ActivePowerAverage" THEN ListVal(ListOf(1, 10))
              ELSE ListVal(ListOf(2, 20))]}

\* A stored MirrorUsagePoint: its alias, its postRate and, per reading type
\* of its MirrorMeterReadings, the powerOfTenMultiplier of the ReadingType.
StoredMup(alias, postRate, pow10_by_type) ==
    [resource_type |-> "MirrorUsagePoint", pen |-> ServerPen, alias |-> alias,
     postRate |-> postRate, mirrorMeterReadings |-> pow10_by_type]

\* The stores the run starts with.
MupStores ==
    {<<>>,
     <<StoredMup("mup1", None, [rt \in ReadingTypes |-> Some(0)])>>,
     <<StoredMup("mup1", Some(1), [rt \in ReadingTypes |-> Some(-1)])>>,
     <<StoredMup("mup1", Some(1), [rt \in {"ActivePowerAverage"} |-> Some(0)])>>,
     <<StoredMup("mup1", Some(1), [rt \in ReadingTypes |-> None])>>,
     <<StoredMup("mup1", Some(1), <<>>)>>,
     <<StoredMup("mup1", Some(1), [rt \in ReadingTypes |-> Some(0)]),
       StoredMup("mup1", Some(1), [rt \in ReadingTypes |-> Some(0)])>>}

\* value_to_sep2 for a multiplier that is not positive: int(value * 10^-pow10).
RECURSIVE value_to_sep2(_, _)
value_to_sep2(value, pow10) ==
    IF pow10 = 0 THEN value ELSE value_to_sep2(value * 10, pow10 + 1)

\* calculate_reading_time, in ticks.
calculate_reading_time(post_rate_seconds, repeat_number) ==
    0 + post_rate_seconds * repeat_number * TicksPerSecond

\* Lines 142-157: the lengths of the lists among the values.
list_lengths(values) ==
    {Len(values[rt].v) : rt \in {x \in DOMAIN values : values[x].type = "list"}}

\* Line 193: mup.postRate or 60.
post_rate_of(mup) ==
    IF mup.postRate = None \/ mup.postRate = Some(0) THEN 60 ELSE mup.postRate[1]

\* What action_insert_readings does: the exception it raised, the request it
\* posted and the result it returned.
InsertOutcome(raised, posted, result) ==
    [raised |-> raised, posted |-> posted, result |-> result]

\* generate_insert_readings_request: per reading type the value of the reading.
generate_insert_readings_request(values, repeat_number, pow10_by_type) ==
    [rt \in DOMAIN values |->
        value_to_sep2(IF values[rt].type = "list" THEN values[rt].v[repeat_number + 1]
                      ELSE values[rt].v,
                      pow10_by_type[rt][1])]

\* Lines 207-214 with the earlier of the two times as not_before.
insert_readings_result_min(all_lengths, repeat_number, post_rate_seconds, t) ==
    IF all_lengths = None \/ repeat_number >= all_lengths[1] - 1
    THEN ActionResult_done
    ELSE LET next_reading_time == calculate_reading_time(post_rate_seconds, repeat_number + 1)
             minimum_wait == t + post_rate_seconds * TicksPerSecond
         IN  ActionResult(TRUE, TRUE,
                          Some(IF next_reading_time < minimum_wait THEN next_reading_time
                               ELSE minimum_wait))

\* Lines 207-214: repeat if there are more readings to send.
insert_readings_result(all_lengths, repeat_number, post_rate_seconds, t) ==
    IF all_lengths = None \/ repeat_number >= all_lengths[1] - 1
    THEN ActionResult_done
    ELSE LET next_reading_time == calculate_reading_time(post_rate_seconds, repeat_number + 1)
             minimum_wait == t + post_rate_seconds * TicksPerSecond
         IN  ActionResult(TRUE, TRUE,
                          Some(IF next_reading_time > minimum_wait THEN next_reading_time
                               ELSE minimum_wait))

\* action_insert_readings without expect_rejection, the server answering the
\* POST with `answer` and the response being in hand at time t.
action_insert_readings(values, repeat_number, mup_id, store, answer, t) ==
    LET lengths == list_lengths(values)
        all_lengths == IF lengths = {} THEN None ELSE Some(CHOOSE n \in lengths : TRUE)
        mups_with_id == SelectSeq(store, LAMBDA sr : sr.resource_type = "MirrorUsagePoint"
                                                     /\ sr.alias = mup_id)
        mup == mups_with_id[1]
        mmrs == mup.mirrorMeterReadings
        post_rate_seconds == post_rate_of(mup)
    IN  IF Cardinality(lengths) > 1
        THEN InsertOutcome(Some("values malformed"), None, None)
        ELSE IF all_lengths # None /\ repeat_number >= all_lengths[1]
        THEN InsertOutcome(Some("values malformed"), None, None)
        ELSE IF Len(mups_with_id) # 1
        THEN InsertOutcome(Some("Expected 1 MirrorUsagePoint"), None, None)
        ELSE IF DOMAIN mmrs = {}
        THEN InsertOutcome(Some("no MirrorMeterReadings"), None, None)
        ELSE IF \E rt \in DOMAIN mmrs : mmrs[rt] = None
        THEN InsertOutcome(Some("no powerOfTenMultiplier"), None, None)
        ELSE IF \E rt \in DOMAIN values : rt \notin DOMAIN mmrs
        THEN InsertOutcome(Some("no pow10 multiplier"), None, None)
        ELSE LET request ==
                     [readings |-> generate_insert_readings_request(values, repeat_number, mmrs),
                      start |-> calculate_reading_time(post_rate_seconds, repeat_number),
                      duration |-> post_rate_seconds]
             IN  IF answer # "OK"
                 THEN InsertOutcome(Some("RequestException"), Some(request), None)
                 ELSE InsertOutcome(None, Some(request),
                                    Some(insert_readings_result(all_lengths, repeat_number,
                                                                post_rate_seconds, t)))

\* Lines 43-97 for a step that inserts readings.
InsertReadings(d, answer, check_result) ==
    /\ CanExecute
    /\ LET se == pop(queue, now)[1][1]
           out == action_insert_readings(steps[se.source].values, se.repeat_number, "mup1",
                                         discovered_resources["client1"], answer, now + d)
       IN  /\ server_log' =
                  IF out.posted = None THEN server_log
                  ELSE Append(server_log,
                              [step |-> se.source, repeat_number |-> se.repeat_number,
                               at |-> now + d, request |-> out.posted[1],
                               answer |-> answer, result |-> out.result])
           /\ IF out.raised # None
              THEN StepActionRaised(d, <<>>)
              ELSE StepReturned(d, out.result[1], check_result, <<>>)
    /\ warnings' = IF pc' = "done" /\ completed' = Some(TRUE)
                   THEN validate_all_resources(warnings, discovered_resources, ServerPen)
                   ELSE warnings
    /\ UNCHANGED <<responses, storeVars, active_request, request_result, der_controls,
                   annotations, hostVars>>

InitReadings ==
    /\ steps \in [StepIds -> [id : StepIds, repeat_until_pass : {FALSE},
                              values : ReadingValues]]
    /\ \A i \in StepIds : steps[i].id = i
    /\ \A i \in StepIds \ {1} : steps[i].values = [rt \in {"ActivePowerAverage"} |-> IntVal(5)]
    /\ queue = InitialQueue(NumSteps)
    /\ now \in {0, 1}
    /\ repeat_delay = 0
    /\ pc = "loop"
    /\ completed = None
    /\ current_step_execution = None
    /\ progress_by_step_id = <<>>
    /\ all_completions = <<>>
    /\ all_results = <<>>
    /\ warnings = <<>>
    /\ responses = <<>>
    /\ evaluation = None
    /\ EmptyStore
    /\ active_request = None
    /\ request_result = None
    /\ server_log = <<>>
    /\ der_controls = <<>>
    /\ annotations = <<>>
    /\ notification_contexts =
           [c \in Clients |-> [endpoints_by_sub_alias |-> <<>>, delete_attempts |-> <<>>]]
    /\ collector = [endpoints |-> {}, log |-> <<>>]
    /\ entrypoint = None
    /\ run_id_file = [content |-> None, locked_by |-> None]
    /\ increments = <<>>
    /\ discovered_resources \in [Clients -> MupStores]
    /\ discovered_resources["client2"] = <<>>
    /\ last = [iter |-> 0, kind |-> "init", se |-> None, at |-> now, slept |-> None,
               action_result |-> None, check_result |-> None, queue_before |-> <<>>]

NextReadings ==
    \/ Finish
    \/ \E o \in 0..MaxOversleep : Delay(o)
    \/ \E d \in ActionTicks, answer \in {"OK", "fail"}, cr \in CheckResults :
           InsertReadings(d, answer, cr)

SpecReadings == InitReadings /\ [][NextReadings]_vars

\* The readings the step has posted, in the order of the posts.
PostsOf(s) == SelectSeq(server_log, LAMBDA e : e.step = s)

\* The executions of the step so far.
ExecutionsOf(s) == SelectSeq(all_completions, LAMBDA c : c.step_execution.source = s)

\* The step has its final result, every execution of it having passed.
AllPassed(s) ==
    /\ FinalResult(s) # None
    /\ \A i \in 1..Len(ExecutionsOf(s)) : is_success(ExecutionsOf(s)[i])

\* The values are lists of one length n (and constants), or constants only.
ListsOfLength(values, n) ==
    /\ \E rt \in DOMAIN values : values[rt].type = "list"
    /\ \A rt \in DOMAIN values : values[rt].type = "list" => Len(values[rt].v) = n

ConstantsOnly(values) == \A rt \in DOMAIN values : values[rt].type # "list"

\* The k-th execution (from 0) has posted the k-th value of every list, and
\* the constants, scaled by the multiplier of the MirrorUsagePoint.
PostedValues(s, k) ==
    LET values == steps[s].values
        e == PostsOf(s)[k + 1]
        mup == discovered_resources["client1"][1]
    IN  /\ e.repeat_number = k
        /\ DOMAIN e.request.readings = DOMAIN values
        /\ \A rt \in DOMAIN values :
               e.request.readings[rt] =
                   (IF values[rt].type = "list" THEN values[rt].v[k + 1] ELSE values[rt].v)
                   * (IF mup.mirrorMeterReadings[rt] = Some(-1) THEN 10 ELSE 1)

\* The not_before the k-th execution (from 0) has asked its repeat to wait for.
RepeatNotBefore(s, k) ==
    LET e == PostsOf(s)[k + 1]
        post_rate == post_rate_of(discovered_resources["client1"][1]) * TicksPerSecond
        next_reading_time == post_rate * (k + 1)
    IN  /\ e.result[1].repeat
        /\ e.result[1].not_before # None
        /\ e.result[1].not_before[1] >= next_reading_time
        /\ e.result[1].not_before[1] >= e.at + post_rate
        /\ e.result[1].not_before[1] \in {next_reading_time, e.at + post_rate}

\* C33: a step whose lists all have length n and whose executions all pass
\* is executed n times, the k-th execution having repeat number k, posting
\* the k-th values and, unless it is the last, asking for a repeat not before
\* max(next reading time, now + post rate); a step with constants only is
\* executed once.
C33_OneExecutionPerReading ==
    \A s \in StepIds :
        /\ \A n \in 0..MaxReadings :
               (ListsOfLength(steps[s].values, n) /\ AllPassed(s)) =>
                   /\ Len(ExecutionsOf(s)) = n
                   /\ Len(PostsOf(s)) = n
                   /\ \A k \in 0..(n - 1) :
                          /\ ExecutionsOf(s)[k + 1].step_execution.repeat_number = k
                          /\ PostedValues(s, k)
                          /\ k < n - 1 => RepeatNotBefore(s, k)
                          /\ k = n - 1 => ~PostsOf(s)[k + 1].result[1].repeat
        /\ (ConstantsOnly(steps[s].values) /\ AllPassed(s)) =>
               /\ Len(ExecutionsOf(s)) = 1
               /\ Len(PostsOf(s)) = 1
               /\ PostedValues(s, 0)

C33_Witness ==
    /\ ListsOfLength(steps[1].values, MaxReadings)
    /\ AllPassed(1)
    /\ AllPassed(2)
    /\ Len(PostsOf(1)) = MaxReadings
    /\ PostsOf(1)[1].request.readings["ActivePowerAverage"] = 110
    /\ Len(PostsOf(2)) = 1
    /\ pc = "done"

(***************************************************************************)
(* action/simulate_client.py: action_simulate_client, executed by the      *)
(* loop. The actions it calls are followed as calls that return or raise;  *)
(* server_log holds, per execution, the calls it made.                     *)
(***************************************************************************)
MaxSimulations == 2

\* frequency_seconds of the steps.
Frequencies == {0, 1}

\* fake_reading_value, in hundredths.
fake_reading_value(repeat_number, cycle_length, min_value, max_value) ==
    LET step_amount == ((max_value - min_value) * 100) \div (cycle_length - 1)
        step == repeat_number % cycle_length
    IN  min_value * 100 + step * step_amount

\* Lines 40-78 for every repeat but the first as the claim has it: readings only.
simulate_calls_readings_only(repeat_number) ==
    IF repeat_number = 0
    THEN <<[call |-> "discover_resource"],
           [call |-> "action_respond_der_controls"],
           [call |-> "action_upsert_mup", mup_id |-> "simulate_mup_id", location |-> "Site"]>>
    ELSE <<[call |-> "action_insert_readings", mup_id |-> "simulate_mup_id",
            values |-> [rt \in {"ActivePowerAverage", "VoltageSinglePhaseAverage"} |->
                           IF rt = "ActivePowerAverage"
                           THEN fake_reading_value(repeat_number, 5, 2500, 3500)
                           ELSE fake_reading_value(repeat_number, 5, 235, 240)]]>>

\* Lines 40-78: the calls of an execution, in their order: the discovery of
\* the plan, the responses, then the MirrorUsagePoint or the readings.
simulate_calls(repeat_number) ==
    <<[call |-> "discover_resource"],
      [call |-> "action_respond_der_controls"],
      IF repeat_number = 0
      THEN [call |-> "action_upsert_mup", mup_id |-> "simulate_mup_id", location |-> "Site"]
      ELSE [call |-> "action_insert_readings", mup_id |-> "simulate_mup_id",
            values |-> [rt \in {"ActivePowerAverage", "VoltageSinglePhaseAverage"} |->
                           IF rt = "ActivePowerAverage"
                           THEN fake_reading_value(repeat_number, 5, 2500, 3500)
                           ELSE fake_reading_value(repeat_number, 5, 235, 240)]]>>

\* Lines 80-84: another repeat, or success.
simulate_result(repeat_number, total_simulations, frequency_seconds, t) ==
    IF repeat_number >= total_simulations THEN ActionResult_done
    ELSE ActionResult(TRUE, TRUE, Some(t + frequency_seconds * TicksPerSecond))

\* action_simulate_client started at time t, the fail_at-th of its calls
\* raising (none for 0): the calls made, the exception and the result.
action_simulate_client(parameters, repeat_number, t, fail_at) ==
    LET calls == simulate_calls(repeat_number)
    IN  IF fail_at \in 1..Len(calls)
        THEN [calls |-> SubSeq(calls, 1, fail_at), raised |-> Some("exception"),
              result |-> None]
        ELSE [calls |-> calls, raised |-> None,
              result |-> Some(simulate_result(repeat_number, parameters.total_simulations,
                                              parameters.frequency_seconds, t))]

\* Lines 43-97 for a simulate-client step.
Simulate(d, fail_at, check_result) ==
    /\ CanExecute
    /\ LET se == pop(queue, now)[1][1]
           out == action_simulate_client(steps[se.source], se.repeat_number, now, fail_at)
       IN  /\ server_log' = Append(server_log,
                                   [step |-> se.source, repeat_number |-> se.repeat_number,
                                    started |-> now, calls |-> out.calls,
                                    raised |-> out.raised, result |-> out.result])
           /\ IF out.raised # None
              THEN StepActionRaised(d, <<>>)
              ELSE StepReturned(d, out.result[1], check_result, <<>>)
    /\ UNCHANGED <<warnings, responses, storeVars, active_request, request_result,
                   der_controls, annotations, hostVars>>

InitSimulate ==
    /\ steps \in [StepIds -> [id : StepIds, repeat_until_pass : {FALSE},
                              frequency_seconds : Frequencies,
                              total_simulations : 0..MaxSimulations]]
    /\ \A i \in StepIds : steps[i].id = i
    /\ \A i \in StepIds \ {1} : steps[i].frequency_seconds = 1 /\ steps[i].total_simulations = 1
    /\ queue = InitialQueue(NumSteps)
    /\ now = 0
    /\ repeat_delay = 0
    /\ pc = "loop"
    /\ completed = None
    /\ current_step_execution = None
    /\ progress_by_step_id = <<>>
    /\ all_completions = <<>>
    /\ all_results = <<>>
    /\ warnings = <<>>
    /\ responses = <<>>
    /\ evaluation = None
    /\ EmptyStore
    /\ NoRequests
    /\ last = [iter |-> 0, kind |-> "init", se |-> None, at |-> 0, slept |-> None,
               action_result |-> None, check_result |-> None, queue_before |-> <<>>]

NextSimulate ==
    \/ Finish
    \/ \E o \in 0..MaxOversleep : Delay(o)
    \/ \E d \in ActionTicks, fail_at \in 0..3, cr \in CheckResults : Simulate(d, fail_at, cr)

SpecSimulate == InitSimulate /\ [][NextSimulate]_vars

\* The names of the calls of the i-th execution.
CallsOf(i) == [k \in 1..Len(server_log[i].calls) |-> server_log[i].calls[k].call]

\* The executions whose action returned.
ReturnedExecutions == {i \in 1..Len(server_log) : server_log[i].raised = None}

\* The result of an execution: a repeat not before start + frequency-seconds
\* until the repeat number has reached total-simulations, done from then on.
RepeatsUntilTotal(i) ==
    LET e == server_log[i]
        p == steps[e.step]
    IN  IF e.repeat_number >= p.total_simulations
        THEN e.result[1] = ActionResult_done
        ELSE /\ e.result[1].completed
             /\ e.result[1].repeat
             /\ e.result[1].not_before
                    = Some(e.started + p.frequency_seconds * TicksPerSecond)

\* C34 as claimed: discovery, the responses and the MirrorUsagePoint on repeat
\* 0 only, later repeats inserting two readings and nothing else.
C34_DiscoveryOnFirstRepeatOnly ==
    \A i \in ReturnedExecutions :
        /\ server_log[i].repeat_number = 0 =>
               CallsOf(i) = <<"discover_resource", "action_respond_der_controls",
                              "action_upsert_mup">>
        /\ server_log[i].repeat_number > 0 => CallsOf(i) = <<"action_insert_readings">>
        /\ RepeatsUntilTotal(i)

\* C34, amended: every execution runs the discovery and then the responses;
\* the execution with repeat number 0 then creates the MirrorUsagePoint of
\* the site, every later one inserts two readings; the result is a repeat
\* not before start + frequency-seconds until the repeat number has reached
\* total-simulations, and done then.
C34_DiscoveryOnEveryRepeat ==
    \A i \in ReturnedExecutions :
        /\ server_log[i].repeat_number = 0 =>
               /\ CallsOf(i) = <<"discover_resource", "action_respond_der_controls",
                                 "action_upsert_mup">>
               /\ server_log[i].calls[3].location = "Site"
        /\ server_log[i].repeat_number > 0 =>
               /\ CallsOf(i) = <<"discover_resource", "action_respond_der_controls",
                                 "action_insert_readings">>
               /\ Cardinality(DOMAIN server_log[i].calls[3].values) = 2
               /\ server_log[i].calls[3].mup_id = server_log[1].calls[3].mup_id
        /\ RepeatsUntilTotal(i)

C34_Witness ==
    /\ pc = "done"
    /\ steps[1].total_simulations = MaxSimulations
    /\ \A s \in StepIds : FinalResult(s) # None /\ AllPassed(s)
    /\ \E i \in ReturnedExecutions :
           /\ server_log[i].step = 1
           /\ server_log[i].repeat_number = MaxSimulations
           /\ server_log[i].result[1] = ActionResult_done
           /\ server_log[i].calls[3].values["ActivePowerAverage"]
                  = 250000 + MaxSimulations * 25000

(***************************************************************************)
(* sep2.py: hex_binary_equal, and schema/validator.py: to_hex_binary.      *)
(* Strings are sequences of characters.                                    *)
(***************************************************************************)
MaxHexValue == 260

HexDigits ==
    <<"0", "1", "2", "3", "4", "5", "6", "7", "8", "9", "A", "B", "C", "D", "E", "F">>

\* The digits of f"{v:X}" for v >= 0.
RECURSIVE upper_hex(_)
upper_hex(v) ==
    IF v < 16 THEN <<HexDigits[v + 1]>>
    ELSE Append(upper_hex(v \div 16), HexDigits[(v % 16) + 1])

\* f"{v:X}": the sign of a negative number, then the digits of its magnitude.
format_X(v) == IF v < 0 THEN <<"-">> \o upper_hex(-v) ELSE upper_hex(v)

\* to_hex_binary
to_hex_binary(v) ==
    LET hex_str == format_X(v)
    IN  IF Len(hex_str) % 2 = 1 THEN <<"0">> \o hex_str ELSE hex_str

\* The value of a hexadecimal digit, None for another character.
digit_value(c) ==
    IF \E i \in 1..16 : HexDigits[i] = c
    THEN Some((CHOOSE i \in 1..16 : HexDigits[i] = c) - 1)
    ELSE None

\* The value of a string of hexadecimal digits.
RECURSIVE digits_value(_)
digits_value(s) ==
    IF s = <<>> THEN 0
    ELSE 16 * digits_value(SubSeq(s, 1, Len(s) - 1)) + digit_value(s[Len(s)])[1]

\* int(s, 16) for a string of signs and upper-case digits: an optional sign
\* followed by at least one digit, anything else being a ValueError (None).
int16(s) ==
    LET signed == s # <<>> /\ s[1] \in {"-", "+"}
        digits == IF signed THEN Tail(s) ELSE s
    IN  IF digits = <<>> \/ \E i \in 1..Len(digits) : digit_value(digits[i]) = None
        THEN None
        ELSE Some(IF signed /\ s[1] = "-" THEN -digits_value(digits) ELSE digits_value(digits))

\* hex_binary_equal for two values that are not None: what it raised and
\* what it returned.
hex_binary_equal(a, b) ==
    LET a_int == IF a.type = "str" THEN int16(a.v) ELSE Some(a.v)
        b_int == IF b.type = "str" THEN int16(b.v) ELSE Some(b.v)
    IN  IF a_int = None \/ b_int = None
        THEN [raised |-> Some("ValueError"), returned |-> None]
        ELSE [raised |-> None, returned |-> Some(a_int[1] = b_int[1])]

\* An integer is encoded, and compared with its encoding and the encoding
\* with the encoding behind a further "0".
HexRoundTrip(n) ==
    /\ store_result' =
           Some([op |-> "hex_binary_equal", n |-> n, encoded |-> to_hex_binary(n),
                 with_encoded |-> hex_binary_equal(IntVal(n), StrVal(to_hex_binary(n))),
                 with_padded |-> hex_binary_equal(StrVal(to_hex_binary(n)),
                                                  StrVal(<<"0">> \o to_hex_binary(n)))])
    /\ UNCHANGED <<runVars, trackerVars, evaluation, resource_store, id_store, actionVars>>

NextHex == \E n \in (-MaxHexValue)..MaxHexValue : HexRoundTrip(n)

SpecHex == InitIdle /\ [][NextHex]_vars

Encoded == store_result # None /\ store_result[1].op = "hex_binary_equal"

\* C35: every integer, the negative ones included, equals its encoding, and
\* its encoding equals the encoding behind a further "0".
C35_HexRoundTrip ==
    Encoded =>
        /\ store_result[1].with_encoded = [raised |-> None, returned |-> Some(TRUE)]
        /\ store_result[1].with_padded = [raised |-> None, returned |-> Some(TRUE)]

\* The integers that are not negative do.
HexRoundTripOfNaturals ==
    (Encoded /\ store_result[1].n >= 0) =>
        /\ store_result[1].with_encoded = [raised |-> None, returned |-> Some(TRUE)]
        /\ store_result[1].with_padded = [raised |-> None, returned |-> Some(TRUE)]

\* The kinds of iteration that have popped a step-execution and started its
\* action.
ExecutedKinds == {"repeat", "retry", "final", "exception"}

\* C36: a step-execution whose action was started had no not_before, or one
\* that was not later than the time of its pop.
C36_NeverBeforeNotBefore ==
    last.kind \in ExecutedKinds =>
        \/ last.se[1].not_before = None
        \/ last.se[1].not_before[1] <= last.at

C36_Witness ==
    /\ last.kind \in ExecutedKinds
    /\ last.se[1].not_before # None
    /\ last.se[1].not_before[1] <= last.at
    /\ \E i \in 1..Len(last.queue_before) :
           /\ last.queue_before[i].not_before # None
           /\ last.queue_before[i].not_before[1] > last.at

(***************************************************************************)
(* The loop on any queue (execute.py, lines 32-45), with actions and       *)
(* checks that return, pass and ask for no repeat.                         *)
(***************************************************************************)
\* The primacies and the not_before values of the queued step-executions:
\* ordinary ones and the sentinels of peek and peek_next_no_wait.
QueuePrimacies == {0, 1, MAX_PRIMACY}

QueueNotBefores == {None, Some(1), Some(TicksPerSecond + 1), Some(EARLIEST_SENTINEL)}

\* Lines 43-45: nothing is popped, the loop continues with its next iteration.
\* The iterations are counted up to MaxIterations.
PopNothing ==
    /\ pc = "loop"
    /\ upcoming_step # None
    /\ executable_delay_required(upcoming_step[1], now) = 0
    /\ pop(queue, now)[1] = None
    /\ last' = [Iteration("continue", None, None, None, None) EXCEPT
                   !.iter = IF last.iter < MaxIterations THEN last.iter + 1 ELSE last.iter]
    /\ UNCHANGED <<steps, queue, now, repeat_delay, pc, completed, current_step_execution,
                   trackerVars, evaluation, storeVars, actionVars>>

\* The action and the check of the popped step-execution return and pass.
ExecPassed(d) == ExecCompleted(d, ActionResult_done, CheckResult(TRUE, None))

InitQueue ==
    /\ steps = [i \in StepIds |-> [id |-> i, repeat_until_pass |-> FALSE]]
    /\ queue \in [StepIds -> [source : StepIds, primacy : QueuePrimacies,
                              repeat_number : {0}, not_before : QueueNotBefores,
                              attempts : {0}]]
    /\ \A i \in StepIds : queue[i].source = i
    /\ now = 0
    /\ repeat_delay = 0
    /\ pc = "loop"
    /\ completed = None
    /\ current_step_execution = None
    /\ progress_by_step_id = <<>>
    /\ all_completions = <<>>
    /\ all_results = <<>>
    /\ warnings = <<>>
    /\ responses = <<>>
    /\ evaluation = None
    /\ EmptyStore
    /\ NoRequests
    /\ last = [iter |-> 0, kind |-> "init", se |-> None, at |-> 0, slept |-> None,
               action_result |-> None, check_result |-> None, queue_before |-> <<>>]

NextQueue ==
    \/ Finish
    \/ \E o \in 0..MaxOversleep : Delay(o)
    \/ \E d \in ActionTicks : ExecPassed(d)
    \/ PopNothing

\* The loop is a sequential program: it takes its next iteration as long as
\* it has one.
SpecQueue == InitQueue /\ [][NextQueue]_vars /\ WF_vars(NextQueue)

\* C37: on any queue the loop ends, with an empty queue, and every iteration
\* before executes a step-execution or sleeps for a positive time.
C37_LoopDrainsAnyQueue ==
    /\ <>(pc = "done" /\ queue = <<>>)
    /\ [](last.kind # "continue")
    /\ [](last.kind = "delay" => last.slept[1] > 0)

\* The queue holds no primacy and no not_before that is a sentinel.
BelowSentinels ==
    \A i \in 1..Len(queue) :
        /\ queue[i].primacy < MAX_PRIMACY
        /\ queue[i].not_before # Some(EARLIEST_SENTINEL)

\* On a queue without the sentinels the loop does as C37 says.
LoopDrainsQueueBelowSentinels ==
    BelowSentinels =>
        /\ <>(pc = "done" /\ queue = <<>>)
        /\ [](last.kind # "continue")
        /\ [](last.kind = "delay" => last.slept[1] > 0)

\* The step has received its final result.
HasFinalResult(s) ==
    /\ s \in DOMAIN progress_by_step_id
    /\ progress_by_step_id[s].result # None

\* The results recorded for the step in all_results.
ResultsOf(s) == SelectSeq(all_results, LAMBDA r : r.step = s)

\* C38: once a step has its final result, no iteration executes a
\* step-execution of the step and none changes the result or records another.
C38_FinalResultIsFinal ==
    [][\A s \in StepIds :
           HasFinalResult(s) =>
               /\ HasFinalResult(s)'
               /\ progress_by_step_id'[s].result = progress_by_step_id[s].result
               /\ ResultsOf(s)' = ResultsOf(s)
               /\ ~(/\ last'.iter # last.iter
                    /\ last'.kind \in ExecutedKinds
                    /\ last'.se[1].source = s)]_vars

C38_Witness ==
    /\ last.kind \in ExecutedKinds
    /\ \E s \in StepIds :
           /\ s # last.se[1].source
           /\ HasFinalResult(s)
           /\ Len(ResultsOf(s)) = 1
           /\ \E i \in 1..Len(last.queue_before) : last.queue_before[i].source # s
    /\ HasFinalResult(last.se[1].source)

\* The number of step-executions of the step in the list.
QueuedOf(items, s) == Cardinality({i \in 1..Len(items) : items[i].source = s})

\* C39: an iteration that has executed a step-execution has removed that one
\* from the queue and added at most one clone of it, the rest of the queue
\* staying as it was; the queue is never longer than before the iteration and
\* never holds more step-executions of a step than at the start of the run.
C39_QueueNeverGrows ==
    /\ last.kind \in ExecutedKinds =>
           LET se == last.se[1]
               rest == list_remove(last.queue_before, se)
           IN  /\ \E i \in 1..Len(last.queue_before) : last.queue_before[i] = se
               /\ Len(rest) = Len(last.queue_before) - 1
               /\ \/ queue = rest
                  \/ /\ Len(queue) = Len(rest) + 1
                     /\ SubSeq(queue, 1, Len(rest)) = rest
                     /\ queue[Len(queue)].source = se.source
                     /\ queue[Len(queue)].primacy = se.primacy
               /\ Len(queue) <= Len(last.queue_before)
    /\ last.kind \in {"delay", "finish"} => queue = last.queue_before
    /\ Len(queue) <= NumSteps
    /\ \A s \in StepIds : QueuedOf(queue, s) <= QueuedOf(InitialQueue(NumSteps), s)

C39_Witness ==
    /\ last.kind = "repeat"
    /\ Len(queue) = NumSteps
    /\ Len(last.queue_before) = NumSteps
    /\ queue[Len(queue)].repeat_number = 2
    /\ queue # last.queue_before

\* C40: a clear_resource or a delete_resource of the store returns, whatever
\* the calls before it were.
C40_ClearAndDeleteNeverRaise ==
    (store_result # None /\ store_result[1].op \in {"clear_resource", "delete"}) =>
        store_result[1].raised = None

====
